---------------------------- MODULE Spec2Model ----------------------------
(***************************************************************************)
(* Model of abtem/bases.py: the observer/cache layer (notify, Observable,  *)
(* Cache, cached_method), GridProperty and the Grid consistency engine     *)
(* (constructor, getters, setters, match_grid).                            *)
(*                                                                         *)
(* Numbers.  Grid values are numpy arrays; every operation of the engine   *)
(* is elementwise, so one component is modelled (dimensions = 1, as for a  *)
(* LineProfile).  A float is an exact fraction n/d; rounding of float32 is *)
(* not modelled.  numpy does not raise on a division by zero, it returns   *)
(* inf or nan: these are the fractions 1/0, -1/0 and 0/0.                  *)
(***************************************************************************)
EXTENDS Integers, Sequences, FiniteSets, TLC

VARIABLES
    grids,      \* id -> the Grid object: its three GridProperty values, locks, endpoint
    observers,  \* id -> the grid's _observers list
    cache,      \* Cache._cache: method name -> data
    conds,      \* Cache._clear_conditions: method name -> clear condition
    last,       \* the last call: what was called, with what, and what came of it
    regular,    \* id -> the grid was built from exactly two given arguments and
                \* every call on it since returned and passed a defined value
    energies,   \* id -> the _energy of an Energy / Accelerator object
    refs,       \* instance (CTF, Probe) -> the id of the object its _accelerator is
    waves,      \* name -> an array-backed object (Waves, LineProfile, Image)
    steps,      \* what the last call on a wave did, in order
    store       \* url -> the zarr store at it: its components and attributes

vars == <<grids, observers, cache, conds, last, regular, energies, refs,
          waves, steps, store>>

\* the state outside the grid and cache layer
others == <<energies, refs, waves, steps, store>>

---------------------------------------------------------------------------
(* Bounds of the model *)

\* largest numerator / denominator a stored grid value may have
MaxNum == 8
\* largest extent and largest gpts a caller passes
MaxExtent == 2
MaxGpts == 2

---------------------------------------------------------------------------
(* Floats as fractions *)

Abs(x) == IF x < 0 THEN -x ELSE x

Sign(x) == IF x < 0 THEN -1 ELSE IF x > 0 THEN 1 ELSE 0

RECURSIVE Gcd(_, _)
Gcd(a, b) == IF b = 0 THEN a ELSE Gcd(b, a % b)

\* the value n/d, normalised; d = 0 gives inf (n > 0), -inf (n < 0), nan (n = 0)
Q(n, d) ==
    IF d = 0 THEN [def |-> TRUE, n |-> Sign(n), d |-> 0]
    ELSE LET s == Sign(d)
             k == Gcd(Abs(n), Abs(d))
         IN  [def |-> TRUE, n |-> (s * n) \div k, d |-> (s * d) \div k]

\* Python's None
None == [def |-> FALSE, n |-> 0, d |-> 1]

IsNaN(x) == x.def /\ x.d = 0 /\ x.n = 0

Finite(x) == x.def /\ x.d > 0

Mul(x, y) == Q(x.n * y.n, x.d * y.d)

Recip(y) == IF y.n < 0 THEN Q(-y.d, -y.n) ELSE Q(y.d, y.n)

Div(x, y) == Mul(x, Recip(y))

Sub1(x) == Q(x.n - x.d, x.d)

Add1(x) == Q(x.n + x.d, x.d)

\* np.ceil of a finite float
Ceil(x) == Q(-((-x.n) \div x.d), 1)

\* ndarray.astype(np.int) after np.ceil: the set of results.  The cast of nan
\* or inf is undefined in C: the build yields INT_MIN (x86), or 0 for nan and
\* INT_MAX for inf (saturating casts).  INT_MIN and INT_MAX lie beyond MaxNum,
\* so within the bounds of the model only nan -> 0 remains.
AstypeInt(x) ==
    IF Finite(x) THEN {Ceil(x)}
    ELSE IF IsNaN(x) THEN {Q(0, 1)}
    ELSE {}

\* x != y of numpy / Python, reduced by np.any (notify, check_grids_can_match)
AnyNeq(x, y) ==
    IF x.def /\ y.def THEN (IsNaN(x) \/ IsNaN(y) \/ x # y)
    ELSE x.def # y.def

InRange(x) == ~x.def \/ (Abs(x.n) <= MaxNum /\ x.d <= MaxNum)

---------------------------------------------------------------------------
(* GridProperty and Grid *)

\* a Grid: the _value and _locked of its three GridProperty objects, _endpoint
GridOf(e, g, s, le, lg, ls, ep) ==
    [extent |-> e, gpts |-> g, sampling |-> s,
     lockE |-> le, lockG |-> lg, lockS |-> ls, endpoint |-> ep]

\* Grid._adjusted_extent
adjusted_extent_endpoint_ignored(grid, gpts, sampling) == Mul(gpts, sampling)

adjusted_extent(grid, gpts, sampling) ==
    IF grid.endpoint THEN Mul(Sub1(gpts), sampling) ELSE Mul(gpts, sampling)

\* Grid._adjusted_gpts: the set of results (see AstypeInt)
adjusted_gpts_floor(grid, extent, sampling) ==
    LET q == Div(extent, sampling)
        f == IF Finite(q) THEN {Q(q.n \div q.d, 1)} ELSE AstypeInt(q)
    IN  IF grid.endpoint THEN {Add1(c) : c \in f} ELSE f

adjusted_gpts(grid, extent, sampling) ==
    IF grid.endpoint
    THEN {Add1(c) : c \in AstypeInt(Div(extent, sampling))}
    ELSE AstypeInt(Div(extent, sampling))

\* Grid._adjusted_sampling
adjusted_sampling_endpoint_ignored(grid, extent, gpts) == Div(extent, gpts)

adjusted_sampling(grid, extent, gpts) ==
    IF grid.endpoint THEN Div(extent, Sub1(gpts)) ELSE Div(extent, gpts)

\* The getters.  A Grid whose three properties are all locked does not exist:
\* its constructor reads self.extent, which recurses without end.  So where
\* two locks hold, the getters read under them return the stored values.
get_extent(grid) ==
    IF grid.lockG /\ grid.lockS
    THEN adjusted_extent(grid, grid.gpts, grid.sampling)
    ELSE grid.extent

\* NB the source computes a locked-away gpts with _adjusted_sampling
get_gpts(grid) ==
    IF grid.lockE /\ grid.lockS
    THEN adjusted_sampling(grid, grid.extent, grid.sampling)
    ELSE grid.gpts

get_sampling(grid) ==
    IF grid.lockE /\ grid.lockG
    THEN adjusted_sampling(grid, grid.extent, grid.gpts)
    ELSE grid.sampling

\* GridProperty._validate for the values of the model: a number is stored as
\* an array of the property's dtype (gpts: int, truncating), None stays None
Trunc(x) == Q(Sign(x.n) * (Abs(x.n) \div x.d), 1)

validate(name, value) ==
    IF name = "gpts" /\ Finite(value) THEN Trunc(value) ELSE value

\* outcome of a step: the grid it leaves, and whether it raised
Ok(grid) == [grid |-> grid, raised |-> FALSE]

Raise(grid) == [grid |-> grid, raised |-> TRUE]

\* run step F on every outcome of S that did not raise
Then(S, F(_)) == UNION {IF r.raised THEN {r} ELSE F(r.grid) : r \in S}

LockOf(name) ==
    CASE name = "extent" -> "lockE"
      [] name = "gpts" -> "lockG"
      [] name = "sampling" -> "lockS"

\* GridProperty.value setter: raises when locked, else stores the validated value
value_setter_unguarded(grid, name, value) ==
    Ok([grid EXCEPT ![name] = validate(name, value)])

value_setter(grid, name, value) ==
    IF grid[LockOf(name)] THEN Raise(grid)
    ELSE Ok([grid EXCEPT ![name] = validate(name, value)])

\* Grid.extent setter (without the notify decorator)
extent_setter(grid, value) ==
    IF grid.lockG /\ grid.lockS THEN {Raise(grid)}
    ELSE Then(
        IF ~(grid.lockS \/ value = None \/ get_gpts(grid) = None)
        THEN {value_setter(grid, "sampling",
                           adjusted_sampling(grid, value, get_gpts(grid)))}
        ELSE IF ~(grid.lockG \/ value = None \/ get_sampling(grid) = None)
        THEN Then({value_setter(grid, "gpts", c) :
                       c \in adjusted_gpts(grid, value, get_sampling(grid))},
                  LAMBDA g : {value_setter(g, "sampling",
                                  adjusted_sampling(g, value, get_gpts(g)))})
        ELSE {Ok(grid)},
        LAMBDA g : {value_setter(g, "extent", value)})

\* Grid.gpts setter (without the notify decorator)
gpts_setter(grid, value) ==
    IF grid.lockE /\ grid.lockS THEN {Raise(grid)}
    ELSE Then(
        IF ~(grid.lockS \/ get_extent(grid) = None \/ value = None)
        THEN {value_setter(grid, "sampling",
                           adjusted_sampling(grid, get_extent(grid), value))}
        ELSE IF ~(grid.lockE \/ value = None \/ get_sampling(grid) = None)
        THEN {value_setter(grid, "extent",
                           adjusted_extent(grid, value, get_sampling(grid)))}
        ELSE {Ok(grid)},
        LAMBDA g : {value_setter(g, "gpts", value)})

\* the sampling setter without its test for two locked properties
sampling_setter_unchecked(grid, value) ==
    IF ~(grid.lockG \/ get_extent(grid) = None \/ value = None)
    THEN Then({value_setter(grid, "gpts", c) :
                   c \in adjusted_gpts(grid, get_extent(grid), value)},
              LAMBDA g : {value_setter(g, "sampling",
                              adjusted_sampling(g, get_extent(g), get_gpts(g)))})
    ELSE Then(
        IF ~(grid.lockE \/ get_gpts(grid) = None \/ value = None)
        THEN {value_setter(grid, "extent",
                           adjusted_extent(grid, get_gpts(grid), value))}
        ELSE {Ok(grid)},
        LAMBDA g : {value_setter(g, "sampling", value)})

\* Grid.sampling setter (without the notify decorator)
sampling_setter(grid, value) ==
    IF grid.lockG /\ grid.lockE THEN {Raise(grid)}
    ELSE IF ~(grid.lockG \/ get_extent(grid) = None \/ value = None)
    THEN Then({value_setter(grid, "gpts", c) :
                   c \in adjusted_gpts(grid, get_extent(grid), value)},
              LAMBDA g : {value_setter(g, "sampling",
                              adjusted_sampling(g, get_extent(g), get_gpts(g)))})
    ELSE Then(
        IF ~(grid.lockE \/ get_gpts(grid) = None \/ value = None)
        THEN {value_setter(grid, "extent",
                           adjusted_extent(grid, get_gpts(grid), value))}
        ELSE {Ok(grid)},
        LAMBDA g : {value_setter(g, "sampling", value)})

\* getattr(obj, name) / the undecorated setter, by property name
Get(grid, name) ==
    CASE name = "extent" -> get_extent(grid)
      [] name = "gpts" -> get_gpts(grid)
      [] name = "sampling" -> get_sampling(grid)

Setter(grid, name, value) ==
    CASE name = "extent" -> extent_setter(grid, value)
      [] name = "gpts" -> gpts_setter(grid, value)
      [] name = "sampling" -> sampling_setter(grid, value)

\* Grid.__init__.  An argument is a plain value ("value", None included), an
\* unlocked GridProperty ("prop") or a locked one ("locked"); `extent is not
\* None` is true of every GridProperty argument, whatever it holds.  The result
\* is the set of outcomes; a raised outcome is a construction that failed.
\* A getter that computes from None raises TypeError, and with three locks the
\* getters recurse: every such grid fails in the first lines of the constructor.
getter_raises(grid) ==
    \/ grid.lockE /\ grid.lockG /\ grid.lockS
    \/ grid.lockG /\ grid.lockS /\ (grid.gpts = None \/ grid.sampling = None)
    \/ grid.lockE /\ grid.lockS /\ (grid.extent = None \/ grid.sampling = None)
    \/ grid.lockE /\ grid.lockG /\ (grid.extent = None \/ grid.gpts = None)

IsGiven(kind, value) == kind # "value" \/ value # None

Grid_init(e, g, s, ke, kg, ks, endpoint) ==
    LET g0 == GridOf(validate("extent", e), validate("gpts", g),
                     validate("sampling", s),
                     ke = "locked", kg = "locked", ks = "locked", endpoint)
        S1(x) ==
            IF get_extent(x) = None
               /\ ~(get_gpts(x) = None \/ get_sampling(x) = None)
            THEN {value_setter(x, "extent",
                      adjusted_extent(x, get_gpts(x), get_sampling(x)))}
            ELSE {Ok(x)}
        S2(x) ==
            IF get_gpts(x) = None
               /\ ~(get_extent(x) = None \/ get_sampling(x) = None)
            THEN {value_setter(x, "gpts", c) :
                      c \in adjusted_gpts(x, get_extent(x), get_sampling(x))}
            ELSE {Ok(x)}
        S3(x) ==
            IF get_sampling(x) = None
               /\ ~(get_extent(x) = None \/ get_gpts(x) = None)
            THEN {value_setter(x, "sampling",
                      adjusted_sampling(x, get_extent(x), get_gpts(x)))}
            ELSE {Ok(x)}
        \* extent / gpts with a None operand raises TypeError
        S45(x) ==
            IF get_extent(x) = None \/ get_gpts(x) = None THEN {Raise(x)}
            ELSE {value_setter(x, "sampling",
                      adjusted_sampling(x, get_extent(x), get_gpts(x)))}
        S4(x) == IF IsGiven(ke, e) /\ get_gpts(x) # None THEN S45(x) ELSE {Ok(x)}
        S5(x) == IF IsGiven(kg, g) /\ get_extent(x) # None THEN S45(x) ELSE {Ok(x)}
    IN  IF getter_raises(g0) THEN {Raise(g0)}
        ELSE Then(Then(Then(Then(S1(g0), S2), S3), S4), S5)

---------------------------------------------------------------------------
(* Observable, the notify decorator, Cache *)

\* the properties a setter exists for
PropertyNames == {"extent", "gpts", "sampling"}

\* clear conditions: None ("any change") or a tuple of property names
NoCondition == [any |-> TRUE, names |-> {}]

Condition(names) == [any |-> FALSE, names |-> names]

\* the cached methods of the observing Cache: each is wrapped by
\* cached_method(clear_conditions) and computes its data from the grid
Methods == {"m_any", "m_extent", "m_sampling"}

ClearConditionsOf(m) ==
    CASE m = "m_any" -> NoCondition
      [] m = "m_extent" -> Condition({"extent"})
      [] m = "m_sampling" -> Condition({"sampling"})

Compute(m, grid) ==
    CASE m = "m_any" -> get_gpts(grid)
      [] m = "m_extent" -> get_extent(grid)
      [] m = "m_sampling" -> get_sampling(grid)

\* the message of the notify decorator: change = np.any(old != value), where
\* value is the argument of the call
notify_message(old, new, name, value) ==
    [notifier |-> name, change |-> AnyNeq(old, value)]

\* Cache.notify: the keys to pop
purged_ignores_change(cs, message) ==
    {k \in DOMAIN cs : cs[k].any \/ message.notifier \in cs[k].names}

purged(cs, message) ==
    IF message.change
    THEN {k \in DOMAIN cs : cs[k].any \/ message.notifier \in cs[k].names}
    ELSE {}

Restrict(f, keys) == [k \in keys |-> f[k]]

\* Observable.notify_observers, for each message of `notes` in turn: one
\* delivery per registered observer, in the order of registration
Deliver(obs, notes) ==
    [j \in 1..(Len(notes) * Len(obs)) |->
        [to |-> obs[((j - 1) % Len(obs)) + 1],
         notifier |-> notes[((j - 1) \div Len(obs)) + 1].notifier,
         change |-> notes[((j - 1) \div Len(obs)) + 1].change]]

\* the keys a Cache has popped once it has been notified of `notes`
RECURSIVE Purge(_, _)
Purge(cs, notes) ==
    IF notes = <<>> THEN {}
    ELSE LET gone == purged(cs, Head(notes))
         IN  gone \cup Purge(Restrict(cs, DOMAIN cs \ gone), Tail(notes))

IsIn(o, obs) == \E i \in 1..Len(obs) : obs[i] = o

\* a setter under the notify decorator: old = getattr(obj, name); the setter
\* runs; a call that raised notifies nobody; else the message is sent.  Each
\* outcome is the grid left, whether the call raised, and the messages sent.
notified_setter(grid, name, value) ==
    {[grid |-> r.grid, raised |-> r.raised,
      notes |-> IF r.raised THEN <<>>
                ELSE <<notify_message(Get(grid, name), Get(r.grid, name),
                                      name, value)>>] :
        r \in Setter(grid, name, value)}

\* Grid.check_grids_can_match: whether it raises
check_grids_can_match_raises(self, other) ==
    \/ get_extent(self) # None /\ get_extent(other) # None
       /\ AnyNeq(get_extent(self), get_extent(other))
    \/ get_gpts(self) # None /\ get_gpts(other) # None
       /\ AnyNeq(get_gpts(self), get_gpts(other))

\* Grid.match_grid(self, other).  An outcome holds both grids, whether the call
\* raised, and the messages sent, each with the grid ("self" or "other") whose
\* observers received it.
Pair(self, other, raised, notes) ==
    [self |-> self, other |-> other, raised |-> raised, notes |-> notes]

Tag(who, notes) ==
    [i \in 1..Len(notes) |->
        [who |-> who, notifier |-> notes[i].notifier, change |-> notes[i].change]]

\* the step on one property: infer it from the side that defines it
match_property(p, name) ==
    IF Get(p.self, name) = None /\ Get(p.other, name) = None
    THEN {Pair(p.self, p.other, TRUE, p.notes)}
    ELSE IF Get(p.self, name) = None
    THEN {Pair(r.grid, p.other, r.raised, p.notes \o Tag("self", r.notes)) :
              r \in notified_setter(p.self, name, Get(p.other, name))}
    ELSE IF Get(p.other, name) = None
    THEN {Pair(p.self, r.grid, r.raised, p.notes \o Tag("other", r.notes)) :
              r \in notified_setter(p.other, name, Get(p.self, name))}
    ELSE {p}

match_grid_unchecked(self, other) ==
    UNION {IF p.raised THEN {p} ELSE match_property(p, "gpts") :
               p \in match_property(Pair(self, other, FALSE, <<>>), "extent")}

match_grid(self, other) ==
    IF check_grids_can_match_raises(self, other)
    THEN {Pair(self, other, TRUE, <<>>)}
    ELSE UNION {IF p.raised THEN {p} ELSE match_property(p, "gpts") :
                    p \in match_property(Pair(self, other, FALSE, <<>>), "extent")}

---------------------------------------------------------------------------
(* The state machine *)

\* what callers pass
ExtentArgs == {None} \cup {Q(n, 1) : n \in 1..MaxExtent}

GptsArgs == {None} \cup {Q(n, 1) : n \in 1..MaxGpts}

SamplingArgs == {None, Q(1, 2), Q(1, 1), Q(2, 1)}

ArgsOf(name) ==
    CASE name = "extent" -> ExtentArgs
      [] name = "gpts" -> GptsArgs
      [] name = "sampling" -> SamplingArgs

Kinds == {"value", "prop", "locked"}

GridInRange(grid) ==
    InRange(grid.extent) /\ InRange(grid.gpts) /\ InRange(grid.sampling)

\* the constructions Grid(...) that return: the grid, and the arguments given
Constructions(kinds, endpoints) ==
    UNION {{[grid |-> r.grid, args |-> <<e, g, s>>] :
                r \in {x \in Grid_init(e, g, s, ke, kg, ks, ep) :
                          ~x.raised /\ GridInRange(x.grid)}} :
           e \in ExtentArgs, g \in GptsArgs, s \in SamplingArgs,
           ke \in kinds, kg \in kinds, ks \in kinds, ep \in endpoints}

Constructed(kinds, endpoints) == {c.grid : c \in Constructions(kinds, endpoints)}

\* how many of extent, gpts, sampling a construction was given
Given(args) == Cardinality({i \in 1..3 : args[i] # None})

HasLock(grid) == grid.lockE \/ grid.lockG \/ grid.lockS

Observers == {"cache", "monitor"}

NoCall ==
    [op |-> "init", id |-> "a", name |-> "", value |-> None, raised |-> FALSE,
     msgs |-> <<>>, ret |-> None, args |-> <<None, None, None>>, ran |-> FALSE]

\* no Energy object, no CTF and no Probe has been constructed
NoOthers ==
    /\ energies = <<>> /\ refs = <<>>
    /\ waves = <<>> /\ steps = <<>> /\ store = <<>>

\* the state after construction: each grid of `ids` built by one of the
\* constructions `built`, and `obs` observing each of them.  With one grid the
\* arguments of its construction are kept in last.args.
InitOf(ids, built, obs) ==
    \E c \in [ids -> built] :
        /\ grids = [id \in ids |-> c[id].grid]
        /\ regular = [id \in ids |-> Given(c[id].args) = 2]
        /\ observers = [id \in ids |-> obs]
        /\ cache = [k \in {} |-> None]
        /\ conds = [k \in {} |-> NoCondition]
        /\ last = IF ids = {"a"} THEN [NoCall EXCEPT !.args = c["a"].args]
                  ELSE NoCall
        /\ NoOthers

Init == InitOf({"a"}, Constructions(Kinds, BOOLEAN), <<>>)

\* observer.observe(grid): Observable.register_observer
Observe(o, id) ==
    /\ observers' = [observers EXCEPT
                        ![id] = IF IsIn(o, @) THEN @ ELSE Append(@, o)]
    /\ last' = [NoCall EXCEPT !.op = "observe", !.id = id, !.name = o]
    /\ UNCHANGED <<grids, cache, conds, regular, others>>

\* grid.<name> = value: the decorated setter.  The old value is read, the
\* setter runs (what it wrote before raising stays written), and only a call
\* that returns notifies the observers; the Cache among them pops its keys.
Set(id, name, value) ==
    \E r \in notified_setter(grids[id], name, value) :
        LET hears == IsIn("cache", observers[id])
            keep == DOMAIN conds \ Purge(conds, IF hears THEN r.notes ELSE <<>>)
        IN  /\ GridInRange(r.grid)
            /\ grids' = [grids EXCEPT ![id] = r.grid]
            /\ cache' = Restrict(cache, DOMAIN cache \cap keep)
            /\ conds' = Restrict(conds, keep)
            /\ last' = [NoCall EXCEPT
                           !.op = "set", !.id = id, !.name = name,
                           !.value = value, !.raised = r.raised,
                           !.msgs = Deliver(observers[id], r.notes)]
            /\ regular' = [regular EXCEPT
                              ![id] = @ /\ ~r.raised /\ value # None]
            /\ UNCHANGED <<observers, others>>

\* x.match_grid(y)
Match(x, y) ==
    /\ x # y
    /\ \E p \in match_grid(grids[x], grids[y]) :
        LET idOf(who) == IF who = "self" THEN x ELSE y
            heard == SelectSeq(p.notes,
                         LAMBDA n : IsIn("cache", observers[idOf(n.who)]))
            keep == DOMAIN conds \ Purge(conds, heard)
            sent(i) == Deliver(observers[idOf(p.notes[i].who)], <<p.notes[i]>>)
        IN  /\ GridInRange(p.self) /\ GridInRange(p.other)
            /\ grids' = [grids EXCEPT ![x] = p.self, ![y] = p.other]
            /\ cache' = Restrict(cache, DOMAIN cache \cap keep)
            /\ conds' = Restrict(conds, keep)
            /\ last' = [NoCall EXCEPT
                           !.op = "match", !.id = x, !.name = y,
                           !.raised = p.raised,
                           !.msgs = IF Len(p.notes) = 0 THEN <<>>
                                    ELSE IF Len(p.notes) = 1 THEN sent(1)
                                    ELSE sent(1) \o sent(2)]
            /\ regular' = [regular EXCEPT ![x] = @ /\ ~p.raised,
                                          ![y] = @ /\ ~p.raised]
            /\ UNCHANGED <<observers, others>>

\* a method wrapped by cached_method(clear_conditions), called on the Cache
\* whose data come from grid "a": retrieve_from_cache, or compute and
\* update_cache
CallCached(m) ==
    /\ IF m \in DOMAIN cache
       THEN /\ last' = [NoCall EXCEPT !.op = "call", !.name = m, !.ret = cache[m]]
            /\ UNCHANGED <<cache, conds>>
       ELSE LET data == Compute(m, grids["a"])
            IN  /\ cache' = [k \in DOMAIN cache \cup {m} |->
                                IF k = m THEN data ELSE cache[k]]
                /\ conds' = [k \in DOMAIN conds \cup {m} |->
                                IF k = m THEN ClearConditionsOf(m) ELSE conds[k]]
                /\ last' = [NoCall EXCEPT !.op = "call", !.name = m, !.ret = data]
    /\ UNCHANGED <<grids, observers, regular, others>>

\* Cache.clear_cache
ClearCache ==
    /\ cache' = [k \in {} |-> None]
    /\ last' = [NoCall EXCEPT !.op = "clear_cache"]
    /\ UNCHANGED <<grids, observers, conds, regular, others>>

\* The grid engine: one Grid, its observers and its setters
Next ==
    \/ \E o \in Observers : Observe(o, "a")
    \/ \E name \in PropertyNames : \E value \in ArgsOf(name) : Set("a", name, value)

Spec == Init /\ [][Next]_vars

\* The cache layer: a Cache that observes one Grid and memoizes data computed
\* from it; the setters are called with defined values
InitCache == InitOf({"a"}, Constructions(Kinds, {FALSE}), <<"cache">>)

NextCache ==
    \/ \E name \in PropertyNames : \E value \in ArgsOf(name) \ {None} :
           Set("a", name, value)
    \/ \E m \in Methods : CallCached(m)
    \/ ClearCache

SpecCache == InitCache /\ [][NextCache]_vars

\* Matching: two Grids, each with any of its properties defined or not (a
\* setter called with None un-defines one), and match_grid either way
InitMatch ==
    InitOf({"a", "b"}, Constructions({"value", "locked"}, {FALSE}), <<"monitor">>)

NextMatch ==
    \/ \E id \in {"a", "b"} : \E name \in PropertyNames : Set(id, name, None)
    \/ \E x \in {"a", "b"} : \E y \in {"a", "b"} : Match(x, y)

SpecMatch == InitMatch /\ [][NextMatch]_vars

\* Locked properties: grid "a" holds at least one locked GridProperty (as the
\* gpts of an ArrayWithGrid), grid "b" none; the setters of "a" are called with
\* every value, and the two grids are matched either way
InitLocked ==
    /\ InitOf({"a", "b"}, Constructions({"value", "locked"}, {FALSE}), <<"monitor">>)
    /\ HasLock(grids["a"])
    /\ ~HasLock(grids["b"])

NextLocked ==
    \/ \E name \in PropertyNames : \E value \in ArgsOf(name) : Set("a", name, value)
    \/ Match("a", "b")
    \/ Match("b", "a")

SpecLocked == InitLocked /\ [][NextLocked]_vars

---------------------------------------------------------------------------
(* cached_method_with_args *)

\* the argument tuples a method wrapped by cached_method_with_args is called with
CallArgs == {Q(1, 1), Q(2, 1)}

\* the wrapped method: clear_conditions = ('sampling',)
ArgsMethod == "m_args"

ArgsCondition == Condition({"sampling"})

\* data = func(*args): the wrapped function computes from its argument and the
\* grid; the result carries the argument it was computed for
ComputeWithArgs(grid, arg) == [of |-> arg, data |-> get_sampling(grid)]

\* retrieve_from_cache(name)[args[1:]] finds an entry (no KeyError)
is_cached_with_args(c, m, arg) == m \in DOMAIN c /\ arg \in DOMAIN c[m]

\* self._cache[name][args[1:]] = data, or, on KeyError,
\* update_cache(name, {args[1:]: data}, clear_conditions): the cache left
store_with_args_replacing(c, m, arg, data) ==
    [k \in DOMAIN c \cup {m} |-> IF k = m THEN [a \in {arg} |-> data] ELSE c[k]]

store_with_args(c, m, arg, data) ==
    IF m \in DOMAIN c
    THEN [c EXCEPT ![m] = [a \in DOMAIN @ \cup {arg} |->
                              IF a = arg THEN data ELSE @[a]]]
    ELSE [k \in DOMAIN c \cup {m} |-> IF k = m THEN [a \in {arg} |-> data] ELSE c[k]]

\* a call of the wrapped method with one argument
CallCachedWithArgs(arg) ==
    /\ IF is_cached_with_args(cache, ArgsMethod, arg)
       THEN /\ last' = [NoCall EXCEPT !.op = "call_args", !.name = ArgsMethod,
                           !.value = arg, !.ret = cache[ArgsMethod][arg]]
            /\ UNCHANGED <<cache, conds>>
       ELSE LET data == ComputeWithArgs(grids["a"], arg)
            IN  /\ cache' = store_with_args(cache, ArgsMethod, arg, data)
                /\ conds' = IF ArgsMethod \in DOMAIN cache THEN conds
                            ELSE [k \in DOMAIN conds \cup {ArgsMethod} |->
                                     IF k = ArgsMethod THEN ArgsCondition
                                     ELSE conds[k]]
                /\ last' = [NoCall EXCEPT !.op = "call_args", !.name = ArgsMethod,
                               !.value = arg, !.ret = data, !.ran = TRUE]
    /\ UNCHANGED <<grids, observers, regular, others>>

\* Memoization: a Cache observing an unlocked Grid; the wrapped method is
\* called with each argument, the setters with defined values
InitMemo == InitOf({"a"}, Constructions({"value"}, {FALSE}), <<"cache">>)

NextMemo ==
    \/ \E name \in PropertyNames : \E value \in ArgsOf(name) \ {None} :
           Set("a", name, value)
    \/ \E arg \in CallArgs : CallCachedWithArgs(arg)
    \/ ClearCache

SpecMemo == InitMemo /\ [][NextMemo]_vars

---------------------------------------------------------------------------
(* Energy, and the accelerator of a Probe *)

RECURSIVE IsPow2(_)
IsPow2(d) == d = 1 \/ (d > 1 /\ d % 2 = 0 /\ IsPow2(d \div 2))

\* DTYPE(value), the float32 of a number: a fraction with a power of two as
\* denominator is one; any other number becomes the float32 next to it, which
\* is a different number
DTYPE(x) ==
    IF ~Finite(x) \/ IsPow2(x.d) THEN x
    ELSE [def |-> TRUE, n |-> x.n, d |-> x.d, rounded |-> TRUE]

\* the energies a caller passes
EnergyArgs == {None, Q(0, 1), Q(1, 1), Q(1, 3)}

\* Energy.__init__ and the body of the energy setter: the value stored
Energy_store(value) == IF value # None THEN DTYPE(value) ELSE value

\* the energy setter under the notify decorator: the message sent
energy_message(old, value) == [notifier |-> "energy", change |-> AnyNeq(old, value)]

\* Energy.check_is_energy_defined raises
check_is_energy_defined_truthy(energy) == energy = None \/ energy.n = 0

check_is_energy_defined_raises(energy) == energy = None

\* DTYPE(energy2wavelength(energy)), DTYPE(energy2sigma(energy)): a value for
\* every energy
Derived(what, energy) == [of |-> what, energy |-> energy]

\* Energy.wavelength, Energy.sigma: raised, or the value returned
read_derived(what, energy) ==
    IF check_is_energy_defined_raises(energy)
    THEN [raised |-> TRUE, ret |-> None]
    ELSE [raised |-> FALSE, ret |-> Derived(what, energy)]

\* Energy.check_same_energy raises: self.energy != other.energy
check_same_energy_raises(self, other) == self # other

\* Accelerator(energy) and its energy setter: the value stored
Accelerator_store(value) == value

\* the Accelerator of the CTF a Probe constructed without a CTF makes for itself
OwnAccelerator(p) == IF p = "p1" THEN "acc_p1" ELSE "acc_p2"

\* Probe.__init__(energy=energy, ctf=ctf): the energies and references left, and
\* whether it raised.  `shared` tells that the caller passed its CTF object.
Probe_init(es, rf, p, energy, shared) ==
    LET c == IF shared THEN rf["ctf"] ELSE OwnAccelerator(p)
        \* ctf = CTF(energy=energy)
        es1 == IF shared THEN es
               ELSE [k \in DOMAIN es \cup {c} |->
                        IF k = c THEN Accelerator_store(energy) ELSE es[k]]
        \* if ctf.energy is None: ctf.energy = energy
        es2 == IF es1[c] = None THEN [es1 EXCEPT ![c] = Accelerator_store(energy)]
               ELSE es1
    IN  \* if ctf.energy != energy: raise
        IF es2[c] # energy THEN [energies |-> es2, refs |-> rf, raised |-> TRUE]
        \* self._accelerator = self._ctf._accelerator
        ELSE [energies |-> es2,
              refs |-> [k \in DOMAIN rf \cup {p} |-> IF k = p THEN c ELSE rf[k]],
              raised |-> FALSE]

\* the energy seen through an instance
EnergyOf(es, rf, inst) == es[rf[inst]]

\* energy.energy = value on an Energy object
SetEnergy(id, value) ==
    /\ energies' = [energies EXCEPT ![id] = Energy_store(value)]
    /\ last' = [NoCall EXCEPT
                   !.op = "set_energy", !.id = id, !.name = "energy",
                   !.value = value,
                   !.msgs = Deliver(observers[id],
                                    <<energy_message(energies[id], value)>>)]
    /\ UNCHANGED <<grids, observers, cache, conds, regular, refs, waves, steps, store>>

\* energy.wavelength, energy.sigma
ReadDerived(id, what) ==
    LET r == read_derived(what, energies[id])
    IN  /\ last' = [NoCall EXCEPT !.op = "read", !.id = id, !.name = what,
                       !.raised = r.raised, !.ret = r.ret]
        /\ UNCHANGED <<grids, observers, cache, conds, regular, others>>

\* x.check_same_energy(y)
CheckSameEnergy(x, y) ==
    /\ last' = [NoCall EXCEPT !.op = "check_same_energy", !.id = x, !.name = y,
                   !.raised = check_same_energy_raises(energies[x], energies[y])]
    /\ UNCHANGED <<grids, observers, cache, conds, regular, others>>

\* p = Probe(energy=energy, ctf=ctf) or p = Probe(energy=energy)
NewProbe(p, energy, shared) ==
    LET r == Probe_init(energies, refs, p, energy, shared)
    IN  /\ energies' = r.energies
        /\ refs' = r.refs
        /\ last' = [NoCall EXCEPT !.op = "probe", !.id = p, !.value = energy,
                       !.name = IF shared THEN "ctf" ELSE "", !.raised = r.raised]
        /\ UNCHANGED <<grids, observers, cache, conds, regular, waves, steps, store>>

\* inst.energy = value on a CTF or a Probe: the setter of its accelerator
SetInstanceEnergy(inst, value) ==
    /\ inst \in DOMAIN refs
    /\ energies' = [energies EXCEPT ![refs[inst]] = Accelerator_store(value)]
    /\ last' = [NoCall EXCEPT !.op = "set_instance_energy", !.id = inst,
                   !.name = "energy", !.value = value]
    /\ UNCHANGED <<grids, observers, cache, conds, regular, refs, waves, steps, store>>

\* the state with two Energy objects e and f and one CTF
InitEnergyOf(obs) ==
    /\ \E x \in EnergyArgs, y \in EnergyArgs, z \in EnergyArgs :
           energies = [k \in {"e", "f", "acc_ctf"} |->
                          IF k = "e" THEN Energy_store(x)
                          ELSE IF k = "f" THEN Energy_store(y)
                          ELSE Accelerator_store(z)]
    /\ refs = [k \in {"ctf"} |-> "acc_ctf"]
    /\ observers = [k \in {"e", "f"} |-> obs]
    /\ grids = <<>> /\ regular = <<>>
    /\ cache = <<>> /\ conds = <<>>
    /\ waves = <<>> /\ steps = <<>> /\ store = <<>>
    /\ last = NoCall

\* Energy objects: their setter, their derived values, their comparison
InitEnergy == InitEnergyOf(<<>>)

NextEnergy ==
    \/ \E id \in {"e", "f"} : \E o \in Observers : Observe(o, id)
    \/ \E id \in {"e", "f"} : \E value \in EnergyArgs : SetEnergy(id, value)
    \/ \E id \in {"e", "f"} : \E what \in {"wavelength", "sigma"} : ReadDerived(id, what)
    \/ CheckSameEnergy("e", "f")

SpecEnergy == InitEnergy /\ [][NextEnergy]_vars

\* Probes built with and without the caller's CTF, and the energy setters of
\* the instances
InitProbe == InitEnergyOf(<<"monitor">>)

NextProbe ==
    \/ \E p \in {"p1", "p2"} : \E energy \in EnergyArgs : \E shared \in BOOLEAN :
           NewProbe(p, energy, shared)
    \/ \E inst \in {"ctf", "p1", "p2"} : \E value \in EnergyArgs :
           SetInstanceEnergy(inst, value)
    \/ \E x \in {"e", "f"} : \E y \in {"e", "f"} : CheckSameEnergy(x, y)

SpecProbe == InitProbe /\ [][NextProbe]_vars

---------------------------------------------------------------------------
(* Waves: multislice through a potential *)

\* an array: its shape and, standing for its content, a term that tells how
\* the content was made
ArrayOf(shape, data) == [shape |-> shape, data |-> data]

\* array.shape[-2:]
LastTwo(shape) == SubSeq(shape, Len(shape) - 1, Len(shape))

\* gpts that are not defined
NoGpts == <<>>

\* Waves.__init__: the grid takes its gpts, locked, from the array
Waves_init(array, energy, extent, tilt, antialias_aperture, extra_axes_metadata) ==
    [array |-> array, gpts |-> LastTwo(array.shape), extent |-> extent,
     energy |-> energy, tilt |-> tilt, aperture |-> antialias_aperture,
     axes |-> extra_axes_metadata]

\* the default of antialias_aperture
DefaultAperture == Q(2, 3)

\* the default of tilt
NoTilt == Q(0, 1)

\* Waves.__copy__: a Waves of the copied array with the tilt, energy and
\* aperture of self and no extra axes metadata, then the copied grid
Waves_copy(self) ==
    Waves_init(self.array, self.energy, self.extent, self.tilt, self.aperture, <<>>)

\* a potential: its grid, its energy if it has one, its frozen phonons and the
\* number of its slices; real is the realization it is (0: all of them)
PotentialOf(extent, gpts, energy, n, slices) ==
    [extent |-> extent, gpts |-> gpts, energy |-> energy,
     num_frozen_phonons |-> n, slices |-> slices, real |-> 0]

\* potential.frozen_phonon_potentials(): the realizations in order
frozen_phonon_potentials(potential) ==
    [i \in 1..potential.num_frozen_phonons |-> [potential EXCEPT !.real = i]]

\* self._validate_potential(potential) raises: the grids or the energies of
\* wave and potential disagree
validate_potential_raises(self, potential) ==
    \/ self.extent # None /\ potential.extent # None
       /\ AnyNeq(self.extent, potential.extent)
    \/ self.gpts # NoGpts /\ potential.gpts # NoGpts /\ self.gpts # potential.gpts
    \/ self.energy # None /\ potential.energy # None
       /\ AnyNeq(self.energy, potential.energy)

\* the content of an array: where it came from, the potentials it has gone
\* through since, and the contents it is a stack of
Content(src) == [src |-> src, through |-> <<>>, parts |-> <<>>]

\* the content of the exit wave of one run of the engine
Exit(data, potential) == [data EXCEPT !.through = Append(@, potential)]

\* multislice(waves, potential): the transmit and propagate steps of the slices
engine_steps(wave, potential) ==
    [k \in 1..(2 * potential.slices) |->
        [kind |-> IF k % 2 = 1 THEN "transmit" ELSE "propagate",
         slice |-> (k + 1) \div 2,
         from |-> wave.array.data, through |-> potential]]

\* multislice(waves, potential): the exit wave, the metadata of the wave kept
engine(wave, potential) ==
    [wave EXCEPT !.array = ArrayOf(@.shape, Exit(@.data, potential))]

\* da.stack(arrays, axis=0)
stack(arrays) ==
    ArrayOf(<<Len(arrays)>> \o arrays[1].shape,
            [Content("stack") EXCEPT
                !.parts = [i \in 1..Len(arrays) |-> arrays[i].data]])

RECURSIVE Flatten(_)
Flatten(ss) == IF ss = <<>> THEN <<>> ELSE Head(ss) \o Flatten(Tail(ss))

\* the loop of Waves.multislice over the realizations: the wave each run of the
\* engine starts from
RECURSIVE run_inputs_chained(_, _)
run_inputs_chained(self, ps) ==
    IF ps = <<>> THEN <<>>
    ELSE <<self>> \o run_inputs_chained(engine(self, Head(ps)), Tail(ps))

run_inputs(self, ps) == [i \in 1..Len(ps) |-> Waves_copy(self)]

\* the outcome of a call on a wave: raised or the Waves returned, and the
\* steps taken
Outcome(raised, ret, taken) == [raised |-> raised, ret |-> ret, steps |-> taken]

Validated == <<[kind |-> "validate"]>>

\* Waves.multislice after the validation
propagate(self, potential) ==
    IF potential.num_frozen_phonons = 1
    THEN Outcome(FALSE, engine(self, potential), engine_steps(self, potential))
    ELSE LET ps == frozen_phonon_potentials(potential)
             ins == run_inputs(self, ps)
             exit_waves == [i \in 1..Len(ps) |-> engine(ins[i], ps[i])]
             array == stack([i \in 1..Len(ps) |-> exit_waves[i].array])
             axes_metadata == <<"frozen_phonons:ensemble">> \o self.axes
         IN  Outcome(FALSE,
                     Waves_init(array, self.energy, self.extent, self.tilt,
                                DefaultAperture, axes_metadata),
                     Flatten([i \in 1..Len(ps) |-> engine_steps(ins[i], ps[i])]))

\* Waves.multislice(potential)
Waves_multislice_late_check(self, potential) ==
    LET r == propagate(self, potential)
    IN  IF validate_potential_raises(self, potential)
        THEN Outcome(TRUE, None, r.steps \o Validated)
        ELSE Outcome(FALSE, r.ret, r.steps \o Validated)

Waves_multislice(self, potential) ==
    IF validate_potential_raises(self, potential)
    THEN Outcome(TRUE, None, Validated)
    ELSE LET r == propagate(self, potential)
         IN  Outcome(FALSE, r.ret, Validated \o r.steps)

\* a PlaneWave: its grid, energy and tilt
PlaneWaveOf(extent, gpts, energy, tilt) ==
    [extent |-> extent, gpts |-> gpts, energy |-> energy, tilt |-> tilt]

\* potential.grid.match(self) raises: both define a value and the values differ
grid_match_raises(a, b) ==
    \/ a.extent # None /\ b.extent # None /\ AnyNeq(a.extent, b.extent)
    \/ a.gpts # NoGpts /\ b.gpts # NoGpts /\ a.gpts # b.gpts

\* potential.grid.match(self): what one grid does not define it takes from the
\* other
grid_matched(a, b) ==
    [a EXCEPT !.extent = IF @ = None THEN b.extent ELSE @,
              !.gpts = IF @ = NoGpts THEN b.gpts ELSE @]

\* PlaneWave.build: raises unless the grid is defined, else the Waves of ones
PlaneWave_build_raises(self) == self.extent = None \/ self.gpts = NoGpts

PlaneWave_build(self) ==
    Waves_init(ArrayOf(self.gpts, Content("ones")), self.energy, self.extent,
               NoTilt, DefaultAperture, <<>>)

\* PlaneWave.multislice(potential)
PlaneWave_multislice(self, potential) ==
    LET matched == <<[kind |-> "match"]>>
        pw == grid_matched(self, potential)
        pt == grid_matched(potential, self)
    IN  IF grid_match_raises(potential, self) THEN Outcome(TRUE, None, matched)
        ELSE IF PlaneWave_build_raises(pw)
        THEN Outcome(TRUE, None, matched \o <<[kind |-> "build"]>>)
        ELSE LET r == Waves_multislice(PlaneWave_build(pw), pt)
             IN  Outcome(r.raised, r.ret,
                         matched \o <<[kind |-> "build"]>> \o r.steps)

\* most frozen phonons and most slices of a potential
MaxPhonons == 2
MaxSlices == 1

\* what the callers of the model pass
WaveExtents == {Q(1, 1), Q(2, 1)}

WaveGpts == {<<1, 1>>, <<2, 2>>}

WaveEnergies == {Q(1, 1), Q(2, 1)}

Potentials ==
    {PotentialOf(e, g, en, n, s) :
        e \in {None} \cup WaveExtents, g \in {NoGpts} \cup WaveGpts,
        en \in {None} \cup WaveEnergies, n \in 1..MaxPhonons, s \in 1..MaxSlices}

\* Waves(array, energy=1, extent=1, tilt=1, antialias_aperture=a,
\* extra_axes_metadata=...) of a 2 x 2 array or a batch of two of them
InputWaves ==
    {Waves_init(ArrayOf(lead \o <<2, 2>>, Content("psi")), Q(1, 1), Q(1, 1), Q(1, 1), a,
                [i \in 1..Len(lead) |-> "scan"]) :
        lead \in {<<>>, <<2>>}, a \in {DefaultAperture, Q(1, 2)}}

\* PlaneWave(extent=e, gpts=g, energy=1, tilt=1)
PlaneWaves ==
    {PlaneWaveOf(e, g, Q(1, 1), Q(1, 1)) :
        e \in {None, Q(1, 1)}, g \in {NoGpts, <<2, 2>>}}

\* the call leaves the object it was called on as `self`, and the exit wave if
\* it returned
AfterCall(name, self, r) ==
    /\ waves' = [k \in (DOMAIN waves \ {"exit"})
                         \cup (IF r.raised THEN {} ELSE {"exit"}) |->
                    IF k = "exit" THEN r.ret
                    ELSE IF k = name THEN self ELSE waves[k]]
    /\ steps' = r.steps

\* exit = w.multislice(potential)
Multislice(name, potential) ==
    LET r == Waves_multislice(waves[name], potential)
    IN  /\ AfterCall(name, waves[name], r)
        /\ last' = [NoCall EXCEPT !.op = "multislice", !.id = name,
                       !.value = potential, !.raised = r.raised]
        /\ UNCHANGED <<grids, observers, cache, conds, regular, energies, refs, store>>

\* exit = pw.multislice(potential): the match gives the plane wave what its
\* grid did not define
PlaneWaveMultislice(name, potential) ==
    LET r == PlaneWave_multislice(waves[name], potential)
    IN  /\ AfterCall(name,
                     IF grid_match_raises(potential, waves[name]) THEN waves[name]
                     ELSE grid_matched(waves[name], potential),
                     r)
        /\ last' = [NoCall EXCEPT !.op = "planewave_multislice", !.id = name,
                       !.value = potential, !.raised = r.raised]
        /\ UNCHANGED <<grids, observers, cache, conds, regular, energies, refs, store>>

\* the objects `ws`, and nothing else
InitWavesOf(ws) ==
    /\ waves \in ws
    /\ steps = <<>> /\ store = <<>>
    /\ energies = <<>> /\ refs = <<>>
    /\ grids = <<>> /\ regular = <<>> /\ observers = <<>>
    /\ cache = <<>> /\ conds = <<>>
    /\ last = NoCall

\* one Waves w and one PlaneWave pw
InitMultislice ==
    InitWavesOf({[k \in {"w", "pw"} |-> IF k = "w" THEN w ELSE pw] :
                    w \in InputWaves, pw \in PlaneWaves})

NextMultislice ==
    \/ \E potential \in Potentials : Multislice("w", potential)
    \/ \E potential \in Potentials : PlaneWaveMultislice("pw", potential)

SpecMultislice == InitMultislice /\ [][NextMultislice]_vars

---------------------------------------------------------------------------
(* Waves: persistence *)

\* a zarr group without components and attributes
EmptyGroup == [components |-> <<>>, attrs |-> <<>>]

\* f with key k set to v
With(f, k, v) == [x \in DOMAIN f \cup {k} |-> IF x = k THEN v ELSE f[x]]

\* self.array.to_zarr(url, component='array', overwrite=overwrite): raises when
\* the component is there and may not be overwritten, else writes it
array_to_zarr_raises(st, url, overwrite) ==
    url \in DOMAIN st /\ "array" \in DOMAIN st[url].components /\ ~overwrite

array_to_zarr(st, url, array) ==
    LET group == IF url \in DOMAIN st THEN st[url] ELSE EmptyGroup
    IN  With(st, url, [group EXCEPT !.components = With(@, "array", array)])

\* zarr.open(url, mode='w'): mode 'w' creates the group, replacing what the
\* store holds
zarr_open_w(st, url) == With(st, url, EmptyGroup)

\* root.attrs[key] = value
set_attr(st, url, key, value) ==
    [st EXCEPT ![url] = [@ EXCEPT !.attrs = With(@, key, value)]]

\* Waves.to_zarr(url, overwrite): the store left, and whether it raised
Waves_to_zarr(st, url, self, overwrite) ==
    IF array_to_zarr_raises(st, url, overwrite)
    THEN [store |-> st, raised |-> TRUE]
    ELSE LET written == array_to_zarr(st, url, self.array)
             root == zarr_open_w(written, url)
         IN  [store |-> set_attr(set_attr(root, url, "energy", self.energy),
                                 url, "extent", self.extent),
              raised |-> FALSE]

\* Waves.from_zarr(url) raises: no store at url, or an attribute or the array
\* component is not in it
Waves_from_zarr_raises(st, url) ==
    \/ url \notin DOMAIN st
    \/ ~({"energy", "extent"} \subseteq DOMAIN st[url].attrs)
    \/ "array" \notin DOMAIN st[url].components

\* Waves.from_zarr(url): cls(array=array, energy=energy, extent=extent)
Waves_from_zarr(st, url) ==
    Waves_init(st[url].components["array"], st[url].attrs["energy"],
               st[url].attrs["extent"], NoTilt, DefaultAperture, <<>>)

Urls == {"u1", "u2"}

\* w.to_zarr(url, overwrite)
ToZarr(name, url, overwrite) ==
    LET r == Waves_to_zarr(store, url, waves[name], overwrite)
    IN  /\ name \in DOMAIN waves \ {"read"}
        /\ store' = r.store
        /\ last' = [NoCall EXCEPT !.op = "to_zarr", !.id = name, !.name = url,
                       !.raised = r.raised]
        /\ UNCHANGED <<grids, observers, cache, conds, regular, energies, refs,
                       waves, steps>>

\* read = Waves.from_zarr(url)
FromZarr(url) ==
    /\ waves' = IF Waves_from_zarr_raises(store, url)
                THEN Restrict(waves, DOMAIN waves \ {"read"})
                ELSE With(waves, "read", Waves_from_zarr(store, url))
    /\ last' = [NoCall EXCEPT !.op = "from_zarr", !.name = url,
                   !.raised = Waves_from_zarr_raises(store, url)]
    /\ UNCHANGED <<grids, observers, cache, conds, regular, energies, refs,
                   store, steps>>

\* Waves of differing content, energy and extent
StoredWaves ==
    {Waves_init(ArrayOf(lead \o <<2, 2>>, Content("psi")), en, e, NoTilt,
                DefaultAperture, [i \in 1..Len(lead) |-> "scan"]) :
        lead \in {<<>>, <<2>>}, en \in WaveEnergies, e \in WaveExtents}

\* two Waves w and v, and no store
InitZarr ==
    InitWavesOf({[k \in {"w", "v"} |-> IF k = "w" THEN w ELSE v] :
                    w \in StoredWaves, v \in StoredWaves})

NextZarr ==
    \/ \E name \in {"w", "v"} : \E url \in Urls : \E overwrite \in BOOLEAN :
           ToZarr(name, url, overwrite)
    \/ \E url \in Urls : FromZarr(url)

SpecZarr == InitZarr /\ [][NextZarr]_vars

---------------------------------------------------------------------------
(* ArrayWithGrid, LineProfile, Image *)

\* array.shape[-spatial_dimensions:]
Trailing(shape, dims) ==
    IF Len(shape) <= dims THEN shape
    ELSE SubSeq(shape, Len(shape) - dims + 1, Len(shape))

\* the spatial_dimensions LineProfile and Image pass to ArrayWithGrid.__init__
DimsOf(kind) == IF kind = "LineProfile" THEN 1 ELSE 2

\* an array-backed object next to its grid: its class and its array
ArrayObject(kind, array) == [kind |-> kind, dims |-> DimsOf(kind), array |-> array]

\* ArrayWithGrid.__init__(array, spatial_dimensions, extent, sampling): raises
\* for an array of too few dimensions, else the outcomes of the Grid built
\* with the locked gpts of the array.  The arrays of the model have equal
\* trailing entries, which the gpts of the grid stands for.
ArrayWithGrid_init(array, dims, extent, sampling) ==
    IF Len(array.shape) < dims THEN {Raise(GridOf(None, None, None, FALSE, TRUE, FALSE, FALSE))}
    ELSE Grid_init(extent, Q(array.shape[Len(array.shape)], 1), sampling,
                   "value", "locked", "value", FALSE)

\* ArrayWithGrid.copy(copy_array) and Image.copy(): self.extent.copy() raises
\* for an extent of None, Image.copy takes no copy_array, else the object is
\* built anew from the array and the extent
ArrayWithGrid_copy(obj, grid, with_copy_array) ==
    IF (obj.kind = "Image" /\ with_copy_array) \/ get_extent(grid) = None
    THEN {Raise(grid)}
    ELSE ArrayWithGrid_init(obj.array, obj.dims, get_extent(grid), None)

\* array[item] for the index 0 and for the slice 0:1 of the first axis
Items == {[kind |-> "index", k |-> 0], [kind |-> "slice", k |-> 1]}

getitem_raises(array, item) == array.shape = <<>>

getitem(array, item) ==
    IF item.kind = "index"
    THEN ArrayOf(Tail(array.shape), Content("item"))
    ELSE ArrayOf([array.shape EXCEPT ![1] = IF item.k < @ THEN item.k ELSE @],
                 Content("item"))

\* ArrayWithGrid.__getitem__(item): the shape of an array never equals the int
\* spatial_dimensions, so the call goes on to copy without the array and to
\* give the copy the indexed array.  An outcome holds the object returned too.
ArrayWithGrid_getitem(obj, grid, item) ==
    {IF r.raised \/ getitem_raises(obj.array, item)
     THEN [grid |-> r.grid, raised |-> TRUE, obj |-> obj]
     ELSE [grid |-> r.grid, raised |-> FALSE,
           obj |-> ArrayObject(obj.kind, getitem(obj.array, item))] :
        r \in ArrayWithGrid_copy(obj, grid, TRUE)}

\* the object b becomes the result of a call that returned
Returned(r, obj) ==
    /\ GridInRange(r.grid)
    /\ IF r.raised
       THEN UNCHANGED <<grids, waves, observers, regular>>
       ELSE /\ grids' = With(grids, "b", r.grid)
            /\ waves' = With(waves, "b", obj)
            /\ observers' = With(observers, "b", <<>>)
            /\ regular' = With(regular, "b", FALSE)

\* b = src.copy()
CopyArray(src) ==
    /\ src \in DOMAIN waves
    /\ \E r \in ArrayWithGrid_copy(waves[src], grids[src], FALSE) :
           /\ Returned(r, waves[src])
           /\ last' = [NoCall EXCEPT !.op = "copy", !.id = src, !.raised = r.raised]
    /\ UNCHANGED <<cache, conds, energies, refs, steps, store>>

\* b = src[item]
GetItem(src, item) ==
    /\ src \in DOMAIN waves
    /\ \E r \in ArrayWithGrid_getitem(waves[src], grids[src], item) :
           /\ Returned(r, r.obj)
           /\ last' = [NoCall EXCEPT !.op = "getitem", !.id = src,
                          !.value = item, !.raised = r.raised]
    /\ UNCHANGED <<cache, conds, energies, refs, steps, store>>

\* the arrays LineProfile and Image are built from
ArraysOf(kind) ==
    {ArrayOf(lead \o [i \in 1..DimsOf(kind) |-> n], Content("data")) :
        lead \in {<<>>, <<2>>}, n \in 1..MaxGpts}

\* a = LineProfile(array, extent, sampling) or a = Image(array, extent, sampling)
InitArrays ==
    \E kind \in {"LineProfile", "Image"} : \E array \in ArraysOf(kind) :
    \E e \in ExtentArgs : \E s \in SamplingArgs :
    \E r \in ArrayWithGrid_init(array, DimsOf(kind), e, s) :
        /\ ~r.raised /\ GridInRange(r.grid)
        /\ grids = [id \in {"a"} |-> r.grid]
        /\ waves = [id \in {"a"} |-> ArrayObject(kind, array)]
        /\ observers = [id \in {"a"} |-> <<>>]
        /\ regular = [id \in {"a"} |-> FALSE]
        /\ cache = [k \in {} |-> None]
        /\ conds = [k \in {} |-> NoCondition]
        /\ last = NoCall
        /\ energies = <<>> /\ refs = <<>> /\ steps = <<>> /\ store = <<>>

NextArrays ==
    \/ \E name \in PropertyNames : \E value \in ArgsOf(name) : Set("a", name, value)
    \/ \E src \in {"a", "b"} : CopyArray(src)
    \/ \E src \in {"a", "b"} : \E item \in Items : GetItem(src, item)

SpecArrays == InitArrays /\ [][NextArrays]_vars

---------------------------------------------------------------------------
(* AnnularDetector *)

\* largest scattering angle of a pixel, largest intensity of a pixel, most
\* waves of a batch
MaxAngle == 2
MaxIntensity == 1
MaxBatch == 2

\* the Fourier-domain intensity of one wave: pixel k lies at the scattering
\* angle k - 1 and holds intensity[k]
Intensities ==
    {v \in [1..(MaxAngle + 1) -> 0..MaxIntensity] : \E k \in DOMAIN v : v[k] > 0}

Batches == UNION {[1..n -> Intensities] : n \in 1..MaxBatch}

\* AnnularDetector(inner, outer)
Detectors ==
    {[inner |-> i, outer |-> o] : i \in 0..MaxAngle, o \in 1..(MaxAngle + 1)}

\* AnnularDetector.detect(waves): xp.ones(len(waves.array))
AnnularDetector_detect(detector, batch) == [i \in 1..Len(batch) |-> Q(1, 1)]

\* signal = AnnularDetector(inner, outer).detect(w)
Detect(name, detector) ==
    /\ detector.inner < detector.outer
    /\ last' = [NoCall EXCEPT !.op = "detect", !.id = name, !.value = detector,
                   !.ret = AnnularDetector_detect(detector, waves[name].intensity)]
    /\ UNCHANGED <<grids, observers, cache, conds, regular, others>>

\* a batch of waves w, known by its Fourier-domain intensity
InitDetect ==
    InitWavesOf({[k \in {"w"} |-> [intensity |-> b]] : b \in Batches})

NextDetect == \E detector \in Detectors : Detect("w", detector)

SpecDetect == InitDetect /\ [][NextDetect]_vars

---------------------------------------------------------------------------
(* Detectors: the measurement allocated and the data detected *)

\* largest gpts of the grid of a detected wave
MaxShape == 4

\* x - y
Sub(x, y) == Q(x.n * y.d - y.n * x.d, x.d * y.d)

\* x < y for finite x and y
Less(x, y) == x.n * y.d < y.n * x.d

\* crop_to_center(array): the window on one axis of n entries
crop_window(n) ==
    LET w == n \div 2
    IN  [left |-> w - w \div 2, right |-> w + (w - w \div 2)]

\* array[..., left:right, top:bottom]: the shape left by the slices, which
\* numpy clips to the axis
crop_to_center(shape) ==
    LET k == Len(shape)
        cut(n) == LET c == crop_window(n)
                      hi == IF c.right < n THEN c.right ELSE n
                  IN  IF hi > c.left THEN hi - c.left ELSE 0
    IN  [i \in 1..k |-> IF i >= k - 1 THEN cut(shape[i]) ELSE shape[i]]

\* np.squeeze
squeeze(shape) == SelectSeq(shape, LAMBDA n : n # 1)

\* scan.shape, and the batch of waves of one step of the scan
ScanShape == <<2>>

\* sampling and wavelength of the detected waves
ScanSampling == Q(1, 4)

ScanWavelength == Q(1, 1)

\* max_angle = 1 / np.max(sampling) * wavelength / 2
max_angle(sampling, wavelength) == Div(Mul(Recip(sampling), wavelength), Q(2, 1))

\* _PolarDetector._get_bins: raises for an outer not below max_angle, else the
\* numbers of radial and azimuthal bins (radial_steps = 1, azimuthal_steps =
\* 2 pi)
get_bins_raises(detector, sampling, wavelength) ==
    detector.outer # None /\ ~Less(detector.outer, max_angle(sampling, wavelength))

get_bins(detector, sampling, wavelength) ==
    LET inner == IF detector.inner = None THEN Q(0, 1) ELSE detector.inner
        outer == IF detector.outer = None THEN max_angle(sampling, wavelength)
                 ELSE detector.outer
    IN  <<Ceil(Sub(outer, inner)).n, 1>>

\* the detectors: PixelatedDetector(), WavefunctionDetector(),
\* AnnularDetector(inner, outer), AdjustableAnnularDetector(angular_step)
DetectorOf(type, inner, outer, angular_step) ==
    [type |-> type, inner |-> inner, outer |-> outer, angular_step |-> angular_step]

ScanDetectors ==
    {DetectorOf("Pixelated", None, None, None),
     DetectorOf("Wavefunction", None, None, None)}
    \cup {DetectorOf("Annular", Q(0, 1), o, None) : o \in {None, Q(1, 2), Q(3, 2)}}
    \cup {DetectorOf("AdjustableAnnular", None, None, s) : s \in {Q(1, 2), Q(1, 1)}}

\* an outcome of allocate_measurement or of detect: raised, or the shape of
\* the array
Shaped(kind, raised, shape) == [kind |-> kind, raised |-> raised, shape |-> shape]

\* detector.allocate_measurement(grid, wavelength, scan): the shape of the
\* array of the measurement
allocate_measurement(detector, gpts) ==
    CASE detector.type \in {"Pixelated", "Wavefunction"} ->
             Shaped("allocate", FALSE, ScanShape \o <<gpts[1] \div 2, gpts[2] \div 2>>)
      [] detector.type = "Annular" ->
             IF get_bins_raises(detector, ScanSampling, ScanWavelength)
             THEN Shaped("allocate", TRUE, <<>>)
             ELSE Shaped("allocate", FALSE,
                         squeeze(ScanShape \o get_bins(detector, ScanSampling,
                                                       ScanWavelength)))
      [] detector.type = "AdjustableAnnular" ->
             Shaped("allocate", FALSE,
                    ScanShape \o <<Ceil(Div(max_angle(ScanSampling, ScanWavelength),
                                            detector.angular_step)).n>>)

\* detector.detect(waves) for the waves of shape `shape`: the shape of the
\* array returned.  AdjustableAnnularDetector._get_region_indices returns
\* None, and len(None) raises.
detect(detector, shape) ==
    CASE detector.type = "Pixelated" -> Shaped("detect", FALSE, crop_to_center(shape))
      [] detector.type = "Wavefunction" -> Shaped("detect", FALSE, shape)
      [] detector.type = "Annular" -> Shaped("detect", FALSE, <<shape[1]>>)
      [] detector.type = "AdjustableAnnular" -> Shaped("detect", TRUE, <<>>)

\* one step of a scan: the measurement is allocated for the grid of the waves
\* and the waves of the scan positions are detected
ScanStep(name, detector) ==
    /\ steps' = <<allocate_measurement(detector, waves[name].gpts),
                  detect(detector, ScanShape \o waves[name].gpts)>>
    /\ last' = [NoCall EXCEPT !.op = "scan", !.id = name, !.value = detector]
    /\ UNCHANGED <<grids, observers, cache, conds, regular, energies, refs,
                   waves, store>>

\* waves on a grid of gpts (n0, n1)
InitScan ==
    InitWavesOf({[k \in {"w"} |-> [gpts |-> <<n0, n1>>]] :
                    n0 \in 1..MaxShape, n1 \in 1..MaxShape})

NextScan == \E detector \in ScanDetectors : ScanStep("w", detector)

SpecScan == InitScan /\ [][NextScan]_vars

---------------------------------------------------------------------------
(* The intensity of a plane wave through a potential of zero slices *)

\* the points of an array of shape gpts
Pixels(gpts) == (0..(gpts[1] - 1)) \X (0..(gpts[2] - 1))

RECURSIVE SumSet(_, _)
SumSet(S, f) ==
    IF S = {} THEN 0
    ELSE LET x == CHOOSE y \in S : TRUE IN f[x] + SumSet(S \ {x}, f)

\* xp.ones((gpts[0], gpts[1])): the array PlaneWave.build makes
ones_alternating(gpts) == [p \in Pixels(gpts) |-> IF (p[1] + p[2]) % 2 = 0 THEN 1 ELSE -1]

ones(gpts) == [p \in Pixels(gpts) |-> 1]

\* the sizes of an axis whose roots of unity are 1, -i, -1 and i, so that the
\* transform of an integer array is computed exactly
FourierSizes == {1, 2, 4}

\* exp(-2 pi i e / 4)
Root(e) ==
    IF e % 4 = 0 THEN [re |-> 1, im |-> 0]
    ELSE IF e % 4 = 1 THEN [re |-> 0, im |-> -1]
    ELSE IF e % 4 = 2 THEN [re |-> -1, im |-> 0]
    ELSE [re |-> 0, im |-> 1]

\* fft2(array): the transform at every frequency index
fft2(array, gpts) ==
    [k \in Pixels(gpts) |->
        LET e(p) == k[1] * p[1] * (4 \div gpts[1]) + k[2] * p[2] * (4 \div gpts[2])
            re == [p \in Pixels(gpts) |-> array[p] * Root(e(p)).re]
            im == [p \in Pixels(gpts) |-> array[p] * Root(e(p)).im]
        IN  [re |-> SumSet(Pixels(gpts), re), im |-> SumSet(Pixels(gpts), im)]]

\* abs2 of a complex number
abs2(z) == z.re * z.re + z.im * z.im

\* np.fft.fftfreq: the signed frequency of index k on an axis of n points
fftfreq(k, n) == IF 2 * k < n THEN k ELSE k - n

\* the antialiasing aperture keeps a frequency within the cutoff fraction of
\* the Nyquist frequency (n / 2 on an axis of n points)
aperture_keeps(k, gpts, cutoff) ==
    LET f1 == fftfreq(k[1], gpts[1])
        f2 == fftfreq(k[2], gpts[2])
    IN  cutoff.d * cutoff.d * 4 * (f1 * f1 * gpts[2] * gpts[2] + f2 * f2 * gpts[1] * gpts[1])
            <= cutoff.n * cutoff.n * gpts[1] * gpts[1] * gpts[2] * gpts[2]

\* one slice of zero potential on the power spectrum: the transmission
\* function exp(i sigma 0) is 1; the Fresnel propagator has modulus 1 and the
\* aperture removes what lies beyond the cutoff
slice_step(power, gpts, cutoff) ==
    [k \in Pixels(gpts) |-> IF aperture_keeps(k, gpts, cutoff) THEN power[k] ELSE 0]

RECURSIVE slice_steps(_, _, _, _)
slice_steps(power, gpts, cutoff, n) ==
    IF n = 0 THEN power
    ELSE slice_steps(slice_step(power, gpts, cutoff), gpts, cutoff, n - 1)

\* the sum of the intensity of an array
total_intensity(array, gpts) ==
    LET f == [p \in Pixels(gpts) |-> array[p] * array[p]]
    IN  Q(SumSet(Pixels(gpts), f), 1)

\* the sum of the intensity of the array of a power spectrum (Parseval)
spectrum_intensity(power, gpts) ==
    Q(SumSet(Pixels(gpts), power), gpts[1] * gpts[2])

\* PlaneWave.build and multislice through `slices` slices of zero potential,
\* each taken in `splits` steps: the total intensity going in and coming out
zero_potential_multislice(gpts, slices, splits) ==
    LET array == ones(gpts)
        spectrum == fft2(array, gpts)
        power == [k \in Pixels(gpts) |-> abs2(spectrum[k])]
        out == slice_steps(power, gpts, DefaultAperture, slices * splits)
    IN  <<total_intensity(array, gpts), spectrum_intensity(out, gpts)>>

\* the slice numbers, the splits and the slice thicknesses of a call
ZeroSlices == 1..3
Splits == 1..2
Thicknesses == {Q(1, 2), Q(1, 1)}

\* PlaneWave(...).multislice(zero potential, splits)
ZeroMultislice(name, slices, splits, thickness) ==
    /\ steps' = zero_potential_multislice(waves[name].gpts, slices, splits)
    /\ last' = [NoCall EXCEPT !.op = "zero_multislice", !.id = name,
                   !.value = [slices |-> slices, splits |-> splits,
                              thickness |-> thickness]]
    /\ UNCHANGED <<grids, observers, cache, conds, regular, energies, refs,
                   waves, store>>

\* plane waves on a grid of gpts (n0, n1)
InitIntensity ==
    InitWavesOf({[k \in {"pw"} |-> [gpts |-> <<n0, n1>>]] :
                    n0 \in FourierSizes, n1 \in FourierSizes})

NextIntensity ==
    \E slices \in ZeroSlices, splits \in Splits, thickness \in Thicknesses :
        ZeroMultislice("pw", slices, splits, thickness)

SpecIntensity == InitIntensity /\ [][NextIntensity]_vars

---------------------------------------------------------------------------
(* Construction of a Grid from values and GridProperty objects *)

\* the gpts the constructor reads on the object it is building (`if self.gpts
\* is None`), None standing for a read that raised
first_gpts_read(e, g, s, ke, kg, ks, endpoint) ==
    LET g0 == GridOf(validate("extent", e), validate("gpts", g),
                     validate("sampling", s),
                     ke = "locked", kg = "locked", ks = "locked", endpoint)
    IN  IF getter_raises(g0) THEN None ELSE get_gpts(g0)

\* Grid(extent, gpts, sampling, endpoint=endpoint) with the values of
\* last.args, each passed as it is or in a locked GridProperty, in a scope of
\* its own: the grid of the scope before is gone, and the name `id` is bound
\* only when the constructor returns
Construct(id, ke, kg, ks, endpoint) ==
    LET e == last.args[1]
        g == last.args[2]
        s == last.args[3]
    IN  \E r \in Grid_init(e, g, s, ke, kg, ks, endpoint) :
            /\ r.raised \/ GridInRange(r.grid)
            /\ grids' = IF r.raised THEN <<>> ELSE [k \in {id} |-> r.grid]
            /\ regular' = IF r.raised THEN <<>>
                          ELSE [k \in {id} |-> Given(<<e, g, s>>) = 2]
            /\ last' = [NoCall EXCEPT
                           !.op = "construct", !.id = id, !.args = <<e, g, s>>,
                           !.value = [extent |-> ke, gpts |-> kg, sampling |-> ks,
                                      endpoint |-> endpoint],
                           !.raised = r.raised,
                           !.ret = first_gpts_read(e, g, s, ke, kg, ks, endpoint)]
            /\ UNCHANGED <<observers, cache, conds, others>>

\* no Grid has been constructed; the values the constructor will be given
InitConstruct ==
    /\ grids = <<>> /\ regular = <<>> /\ observers = <<>>
    /\ cache = <<>> /\ conds = <<>>
    /\ \E e \in ExtentArgs, g \in GptsArgs, s \in SamplingArgs :
           last = [NoCall EXCEPT !.args = <<e, g, s>>]
    /\ NoOthers

NextConstruct ==
    \E ke \in {"value", "locked"}, kg \in {"value", "locked"},
       ks \in {"value", "locked"}, endpoint \in BOOLEAN :
        Construct("a", ke, kg, ks, endpoint)

SpecConstruct == InitConstruct /\ [][NextConstruct]_vars

---------------------------------------------------------------------------
(* A Grid without a locked property, and its setters *)

\* the grids that do not include their endpoint (for the others see C1)
InitUnlocked == InitOf({"a"}, Constructions({"value", "prop"}, {FALSE}), <<>>)

NextUnlocked ==
    \E name \in PropertyNames : \E value \in ArgsOf(name) : Set("a", name, value)

SpecUnlocked == InitUnlocked /\ [][NextUnlocked]_vars

---------------------------------------------------------------------------
(* The regions of a polar detector under cached_method *)

\* polar_regions(gpts, sampling, wavelength, inner, outer, nbins_radial,
\* nbins_azimuthal) indexed by label: one value for each input
polar_regions(detector, gpts, sampling, wavelength) ==
    [gpts |-> gpts, sampling |-> sampling, wavelength |-> wavelength,
     inner |-> IF detector.inner = None THEN Q(0, 1) ELSE detector.inner,
     outer |-> IF detector.outer = None THEN max_angle(sampling, wavelength)
               ELSE detector.outer,
     bins |-> get_bins(detector, sampling, wavelength)]

\* the methods retrieve_from_cache and update_cache belong to Cache; a
\* detector is an AbstractDetector that holds a Cache in self.cache
is_Cache(self) == self.type = "Cache"

\* new_func of cached_method(clear_conditions) around a method `name` of
\* `self` whose body returns `data`; c is self._cache.  On an object without
\* retrieve_from_cache the lookup raises AttributeError, which `except
\* KeyError` does not catch.
cached_method(self, c, name, data) ==
    IF ~is_Cache(self) THEN [raised |-> TRUE, ret |-> None, cache |-> c]
    ELSE IF name \in DOMAIN c THEN [raised |-> FALSE, ret |-> c[name], cache |-> c]
    ELSE [raised |-> FALSE, ret |-> data,
          cache |-> [k \in DOMAIN c \cup {name} |-> IF k = name THEN data ELSE c[k]]]

\* _PolarDetector._get_regions(gpts, sampling, wavelength), decorated
get_regions(detector, c, gpts, sampling, wavelength) ==
    IF is_Cache(detector) /\ "_get_regions" \notin DOMAIN c
       /\ get_bins_raises(detector, sampling, wavelength)
    THEN [raised |-> TRUE, ret |-> None, cache |-> c]
    ELSE cached_method(detector, c, "_get_regions",
                       polar_regions(detector, gpts, sampling, wavelength))

\* the inner and outer setters under watched_method('changed'): the Event of
\* a _PolarDetector has no callback registered
inner_setter(detector, value) == [detector EXCEPT !.inner = value]

outer_setter(detector, value) == [detector EXCEPT !.outer = value]

\* what callers pass
InnerArgs == {None, Q(0, 1), Q(1, 2)}
OuterArgs == {None, Q(1, 2), Q(1, 1), Q(3, 2)}
RegionGpts == {<<2, 2>>, <<4, 4>>}
RegionSamplings == {Q(1, 4), Q(1, 2)}
RegionWavelengths == {Q(1, 2), Q(1, 1)}

\* detector.inner = value, detector.outer = value
SetInner(name, value) ==
    /\ waves' = [waves EXCEPT ![name] = inner_setter(@, value)]
    /\ last' = [NoCall EXCEPT !.op = "set_inner", !.id = name, !.value = value]
    /\ UNCHANGED <<grids, observers, cache, conds, regular, energies, refs,
                   steps, store>>

SetOuter(name, value) ==
    /\ waves' = [waves EXCEPT ![name] = outer_setter(@, value)]
    /\ last' = [NoCall EXCEPT !.op = "set_outer", !.id = name, !.value = value]
    /\ UNCHANGED <<grids, observers, cache, conds, regular, energies, refs,
                   steps, store>>

\* detector._get_regions(gpts, sampling, wavelength)
GetRegions(name, gpts, sampling, wavelength) ==
    LET r == get_regions(waves[name], cache, gpts, sampling, wavelength)
    IN  /\ cache' = r.cache
        /\ last' = [NoCall EXCEPT
                       !.op = "get_regions", !.id = name,
                       !.args = <<gpts, sampling, wavelength>>,
                       !.raised = r.raised, !.ret = r.ret]
        /\ UNCHANGED <<grids, observers, conds, regular, energies, refs,
                       waves, steps, store>>

\* an AnnularDetector(inner, outer)
InitRegions ==
    InitWavesOf({[k \in {"det"} |-> DetectorOf("Annular", i, o, None)] :
                    i \in InnerArgs, o \in OuterArgs})

NextRegions ==
    \/ \E value \in InnerArgs : SetInner("det", value)
    \/ \E value \in OuterArgs : SetOuter("det", value)
    \/ \E gpts \in RegionGpts, sampling \in RegionSamplings,
          wavelength \in RegionWavelengths :
           GetRegions("det", gpts, sampling, wavelength)

SpecRegions == InitRegions /\ [][NextRegions]_vars

---------------------------------------------------------------------------
(* Grid.copy *)

\* Grid.copy: the constructor called with GridProperty.copy() of the three
\* properties (the stored value in a new, unlocked GridProperty) and with
\* dimensions; endpoint is not passed on
Grid_copy(grid) ==
    Grid_init(grid.extent, grid.gpts, grid.sampling, "prop", "prop", "prop", FALSE)

\* y = x.copy(): the name y is bound anew when the call returns
Copy(x, y) ==
    \E r \in Grid_copy(grids[x]) :
        /\ r.raised \/ GridInRange(r.grid)
        /\ grids' = IF r.raised THEN grids ELSE [grids EXCEPT ![y] = r.grid]
        /\ regular' = IF r.raised THEN regular ELSE [regular EXCEPT ![y] = FALSE]
        /\ last' = [NoCall EXCEPT !.op = "copy", !.id = x, !.name = y,
                       !.raised = r.raised]
        /\ UNCHANGED <<observers, cache, conds, others>>

\* a Grid "a" of any construction and a Grid() "b"
InitCopy ==
    /\ InitOf({"a", "b"}, Constructions({"value", "locked"}, BOOLEAN), <<>>)
    /\ grids["b"] = GridOf(None, None, None, FALSE, FALSE, FALSE, FALSE)

NextCopy ==
    \/ Copy("a", "b")
    \/ \E name \in PropertyNames : \E value \in ArgsOf(name) \ {None} :
           Set("b", name, value)

SpecCopy == InitCopy /\ [][NextCopy]_vars

---------------------------------------------------------------------------
(* Waves: the axes metadata of the objects its operations return *)

\* the metadata of the two axes of the grid
BaseAxes == <<"x", "y">>

\* Waves.axes_metadata: the extra axes followed by the base axes
axes_metadata(self) == self.axes \o BaseAxes

\* Waves.__getitem__(item): raises on an array without leading axes, else a
\* Waves of the indexed array with the extent and energy of self
Waves_getitem_raises(self) == Len(self.array.shape) <= 2

Waves_getitem(self, item) ==
    Waves_init(getitem(self.array, item), self.energy, self.extent, NoTilt,
               DefaultAperture, <<>>)

\* Waves.downsample: the array interpolated to `gpts`, the aperture rescaled,
\* and self.axes_metadata passed as extra_axes_metadata
Waves_downsample(self, gpts) ==
    LET shape == SubSeq(self.array.shape, 1, Len(self.array.shape) - 2) \o gpts
        ratio == IF self.gpts[1] * gpts[2] <= self.gpts[2] * gpts[1]
                 THEN Q(self.gpts[1], gpts[1]) ELSE Q(self.gpts[2], gpts[2])
    IN  Waves_init(ArrayOf(shape, Content("downsampled")), self.energy, self.extent,
                   NoTilt, Mul(self.aperture, ratio), axes_metadata(self))

\* Waves.apply_ctf: the array convolved with the kernel of the CTF, with the
\* extent, energy, tilt and extra axes metadata of self
Waves_apply_ctf(self) ==
    Waves_init(ArrayOf(self.array.shape, Content("convolved")), self.energy,
               self.extent, self.tilt, DefaultAperture, self.axes)

\* exit = copy(w), w[item], w.downsample(), w.apply_ctf(ctf)
WavesCall(name, op, item, gpts) ==
    LET self == waves[name]
        raised == op = "getitem" /\ Waves_getitem_raises(self)
        ret == CASE op = "copy" -> Waves_copy(self)
                 [] op = "getitem" -> IF raised THEN None ELSE Waves_getitem(self, item)
                 [] op = "downsample" -> Waves_downsample(self, gpts)
                 [] op = "apply_ctf" -> Waves_apply_ctf(self)
    IN  /\ AfterCall(name, self, [raised |-> raised, ret |-> ret, steps |-> <<>>])
        /\ last' = [NoCall EXCEPT !.op = op, !.id = name, !.raised = raised,
                       !.value = IF op = "getitem" THEN item
                                 ELSE IF op = "downsample"
                                 THEN [kind |-> "gpts", k |-> gpts[1]]
                                 ELSE None]
        /\ UNCHANGED <<grids, observers, cache, conds, regular, energies, refs, store>>

\* a well-formed Waves w: as many extra axes metadata as leading axes
InitAxes == InitWavesOf({[k \in {"w"} |-> w] : w \in InputWaves})

NextAxes ==
    \/ \E op \in {"copy", "apply_ctf"} : WavesCall("w", op, None, <<>>)
    \/ \E item \in Items : WavesCall("w", "getitem", item, <<>>)
    \/ \E gpts \in WaveGpts : WavesCall("w", "downsample", None, gpts)
    \/ \E potential \in Potentials : Multislice("w", potential)
    \/ \E url \in Urls : \E overwrite \in BOOLEAN : ToZarr("w", url, overwrite)
    \/ \E url \in Urls : FromZarr(url)

SpecAxes == InitAxes /\ [][NextAxes]_vars

---------------------------------------------------------------------------
(* Claims C1 - C10 *)

\* the number of sampling intervals of a grid of `gpts` points
Intervals(grid, gpts) == IF grid.endpoint THEN Sub1(gpts) ELSE gpts

AllDefined(grid) ==
    get_extent(grid) # None /\ get_gpts(grid) # None /\ get_sampling(grid) # None

\* extent == gpts * sampling, (gpts - 1) * sampling with the endpoint, as numpy
\* compares the two arrays
RelationHolds(grid) ==
    /\ AllDefined(grid)
    /\ ~AnyNeq(get_extent(grid),
               Mul(Intervals(grid, get_gpts(grid)), get_sampling(grid)))

\* C1: a grid built from two of extent, gpts, sampling and then changed only
\* by setter calls that returned and passed defined positive values satisfies
\* extent = gpts * sampling (endpoint: (gpts - 1) * sampling) in every state.
C1_GridRelation ==
    \A id \in DOMAIN grids : regular[id] => RelationHolds(grids[id])

\* the last call was a setter call that returned
SetReturned(l) == l.op = "set" /\ ~l.raised

\* C2: when a setter of P returns and the value of P has changed, the observing
\* Cache has dropped every entry whose clear condition is None or contains P,
\* and kept every other entry, value and clear condition, as it was.
C2_Invalidation ==
    [][(/\ SetReturned(last')
        /\ IsIn("cache", observers[last'.id])
        /\ Get(grids'[last'.id], last'.name) # Get(grids[last'.id], last'.name))
       => \A k \in DOMAIN conds :
              IF conds[k].any \/ last'.name \in conds[k].names
              THEN k \notin DOMAIN conds' /\ k \notin DOMAIN cache'
              ELSE /\ k \in DOMAIN conds' /\ conds'[k] = conds[k]
                   /\ k \in DOMAIN cache
                      => (k \in DOMAIN cache' /\ cache'[k] = cache[k])]_vars

\* C3: a cached method whose clear condition names Q, and whose data is the
\* value of Q, never returns a value that differs from the current value of Q.
C3_NoStaleData ==
    (last.op = "call" /\ ~ClearConditionsOf(last.name).any
     /\ IsIn("cache", observers["a"]))
    => last.ret = Compute(last.name, grids["a"])

\* C4: a setter call that returns notifies each registered observer once, in
\* order, naming the property set, with change true iff the value of that
\* property after the call differs from its value before the call.
C4_Notification ==
    [][SetReturned(last')
       => LET obs == observers[last'.id]
              differs == AnyNeq(Get(grids[last'.id], last'.name),
                                Get(grids'[last'.id], last'.name))
          IN  /\ Len(last'.msgs) = Len(obs)
              /\ \A i \in 1..Len(obs) :
                     /\ last'.msgs[i].to = obs[i]
                     /\ last'.msgs[i].notifier = last'.name
                     /\ last'.msgs[i].change = differs]_vars

\* C5: no call, returning or raising, changes the stored value (or the lock)
\* of a locked GridProperty.
C5_LockedNeverWritten ==
    [][\A id \in DOMAIN grids : \A name \in PropertyNames :
           grids[id][LockOf(name)]
           => /\ grids'[id][name] = grids[id][name]
              /\ grids'[id][LockOf(name)]]_vars

C5_Witness ==
    /\ last.op = "match" /\ ~last.raised /\ Len(last.msgs) > 0
    /\ grids["a"].lockG

\* C6: the setter of a locked property raises, whatever the value passed.
C6_LockedSetterRaises ==
    (last.op = "set" /\ grids[last.id][LockOf(last.name)]) => last.raised

C6_Witness ==
    /\ last.op = "set" /\ last.raised /\ last.name = "gpts"
    /\ grids["a"].lockG /\ ~grids["a"].lockE /\ ~grids["a"].lockS
    /\ last.value = get_gpts(grids["a"])

\* C7: when x.match_grid(y) returns, both grids define extent and gpts and
\* agree on them.
C7_MatchConsistent ==
    (last.op = "match" /\ ~last.raised)
    => LET x == grids[last.id]
           y == grids[last.name]
       IN  /\ get_extent(x) # None /\ get_extent(y) # None
           /\ get_gpts(x) # None /\ get_gpts(y) # None
           /\ ~AnyNeq(get_extent(x), get_extent(y))
           /\ ~AnyNeq(get_gpts(x), get_gpts(y))

\* both grids define the property, with different values
Differ(x, y, name) ==
    Get(x, name) # None /\ Get(y, name) # None /\ AnyNeq(Get(x, name), Get(y, name))

Neither(x, y, name) == Get(x, name) = None /\ Get(y, name) = None

\* the extent step of match_grid gives an extent to a grid that defines sampling
\* (its extent setter then derives gpts)
ExtentGivenToSampled(x, y) ==
    \/ get_extent(x) = None /\ get_extent(y) # None /\ get_sampling(x) # None
    \/ get_extent(y) = None /\ get_extent(x) # None /\ get_sampling(y) # None

\* C8 as claimed: x.match_grid(y) raises whenever, before the call, the two
\* grids define different extents or different gpts, or neither defines
\* extent, or neither defines gpts.
C8_MatchRaises_AsClaimed ==
    [][last'.op = "match"
       => LET x == grids[last'.id]
              y == grids[last'.name]
          IN  (\/ Differ(x, y, "extent") \/ Differ(x, y, "gpts")
               \/ Neither(x, y, "extent") \/ Neither(x, y, "gpts"))
              => last'.raised]_vars

\* C8, amended: ... or neither defines gpts, unless the grid that is given
\* the extent of the other defines sampling.
C8_MatchRaises ==
    [][last'.op = "match"
       => LET x == grids[last'.id]
              y == grids[last'.name]
          IN  (\/ Differ(x, y, "extent") \/ Differ(x, y, "gpts")
               \/ Neither(x, y, "extent")
               \/ Neither(x, y, "gpts") /\ ~ExtentGivenToSampled(x, y))
              => last'.raised]_vars

\* neither grid defined gpts: the extent was passed on, then match_grid raised
C8_Witness ==
    /\ last.op = "match" /\ last.raised /\ Len(last.msgs) = 1
    /\ Neither(grids["a"], grids["b"], "gpts")
    /\ ~Differ(grids["a"], grids["b"], "extent")

\* the closed forms of the third value
ClosedGpts(grid, extent, sampling) ==
    LET c == Ceil(Div(extent, sampling))
    IN  IF grid.endpoint THEN Add1(c) ELSE c

ClosedSampling(grid, extent, gpts) == Div(extent, Intervals(grid, gpts))

ClosedExtent(grid, gpts, sampling) == Mul(Intervals(grid, gpts), sampling)

\* a Grid constructed from exactly two values holds the closed form of the third
C9_Constructed ==
    (last.op = "init" /\ Given(last.args) = 2)
    => LET g == grids["a"]
           e == last.args[1]
           n == last.args[2]
           s == last.args[3]
       IN  /\ n = None => get_gpts(g) = ClosedGpts(g, e, s)
           /\ s = None => get_sampling(g) = ClosedSampling(g, e, n)
           /\ e = None => get_extent(g) = ClosedExtent(g, n, s)

\* a setter call that returns, with a defined value v, on an unlocked grid:
\* the dependent it recomputes is the closed form of v and the other value
C9_Recomputed ==
    (SetReturned(last') /\ last'.value # None /\ ~HasLock(grids[last'.id]))
    => LET pre == grids[last'.id]
           post == grids'[last'.id]
           v == last'.value
           e == get_extent(pre)
           n == get_gpts(pre)
           s == get_sampling(pre)
       IN  CASE last'.name = "extent" ->
                  IF n # None
                  THEN get_sampling(post) = ClosedSampling(post, v, n)
                  ELSE (s # None /\ Finite(Div(v, s)))
                       => /\ get_gpts(post) = ClosedGpts(post, v, s)
                          /\ get_sampling(post)
                                 = ClosedSampling(post, v, get_gpts(post))
             [] last'.name = "gpts" ->
                  IF e # None
                  THEN get_sampling(post) = ClosedSampling(post, e, v)
                  ELSE s # None => get_extent(post) = ClosedExtent(post, v, s)
             [] last'.name = "sampling" ->
                  IF e # None
                  THEN Finite(Div(e, v))
                       => get_gpts(post) = ClosedGpts(post, e, v)
                  ELSE n # None => get_extent(post) = ClosedExtent(post, n, v)

\* C9: a Grid constructed with exactly two of extent, gpts, sampling defines
\* the third by gpts = ceil(extent / sampling) (+ 1 with the endpoint),
\* sampling = extent / gpts (extent / (gpts - 1)), extent = gpts * sampling
\* ((gpts - 1) * sampling); each later setter call that returns on an unlocked
\* grid recomputes its dependent by the same formulas.
C9_Derivation == []C9_Constructed /\ [][C9_Recomputed]_vars

\* the sampling setter derived gpts from a quotient that is not an integer
C9_Witness ==
    /\ SetReturned(last) /\ last.name = "sampling" /\ last.value # None
    /\ ~HasLock(grids["a"]) /\ grids["a"].endpoint
    /\ Finite(get_extent(grids["a"]))
    /\ Div(get_extent(grids["a"]), last.value).d > 1
    /\ get_gpts(grids["a"]) = ClosedGpts(grids["a"], get_extent(grids["a"]), last.value)

TwoLocked(grid) == Cardinality({name \in PropertyNames : grid[LockOf(name)]}) = 2

\* C10: on a grid with two locked properties the setter of the remaining one
\* raises, leaves extent, gpts and sampling as they were and notifies no
\* observer.
C10_OverDetermined ==
    [][(/\ last'.op = "set"
        /\ TwoLocked(grids[last'.id])
        /\ ~grids[last'.id][LockOf(last'.name)])
       => /\ last'.raised
          /\ grids'[last'.id] = grids[last'.id]
          /\ \A name \in PropertyNames :
                 Get(grids'[last'.id], name) = Get(grids[last'.id], name)
          /\ last'.msgs = <<>>]_vars

C10_Witness ==
    /\ last.op = "set" /\ last.raised /\ last.value # None
    /\ TwoLocked(grids["a"]) /\ ~grids["a"][LockOf(last.name)]
    /\ Len(observers["a"]) > 0

---------------------------------------------------------------------------
(* Claims C11 - C20 *)

\* the step was an invalidation of the entry of method m: clear_cache, or a
\* setter whose message the Cache heard with change true and a notifier its
\* clear condition covers
Invalidates(l, cs, m) ==
    \/ l.op = "clear_cache"
    \/ /\ l.op = "set"
       /\ \E i \in 1..Len(l.msgs) :
              /\ l.msgs[i].to = "cache" /\ l.msgs[i].change
              /\ m \in DOMAIN cs
              /\ (cs[m].any \/ l.msgs[i].notifier \in cs[m].names)

\* a call either finds the entry of its own argument and returns it without
\* running the function, or runs the function once and stores the result
C11_Call ==
    last'.op = "call_args"
    => LET m == last'.name
           arg == last'.value
       IN  /\ last'.ran = ~is_cached_with_args(cache, m, arg)
           /\ ~last'.ran => last'.ret = cache[m][arg]
           /\ last'.ret.of = arg
           /\ is_cached_with_args(cache', m, arg) /\ cache'[m][arg] = last'.ret

\* a stored entry stays, value included, unless the step invalidates it
C11_Keep ==
    \A m \in DOMAIN cache : \A arg \in DOMAIN cache[m] :
        \/ is_cached_with_args(cache', m, arg) /\ cache'[m][arg] = cache[m][arg]
        \/ Invalidates(last', conds, m)

\* C11: a method wrapped by cached_method_with_args runs its function only on
\* a miss (at most once per argument tuple between two invalidations), every
\* call returns the value computed for its own argument tuple, and a stored
\* entry disappears only by an invalidating notification or clear_cache.
C11_Memoization == [][C11_Call /\ C11_Keep]_vars

\* a hit on one argument while the entry of the other argument is stored too
C11_Witness ==
    /\ last.op = "call_args" /\ ~last.ran
    /\ Cardinality(DOMAIN cache[ArgsMethod]) = 2

\* C12: changing the energy of one Probe or CTF instance never changes the
\* energy observed through any other instance, in particular not through the
\* CTF passed to a Probe constructor nor through a second Probe built from
\* the same CTF.
C12_OthersKept ==
    last'.op = "set_instance_energy" =>
        \A j \in DOMAIN refs \ {last'.id} :
            EnergyOf(energies', refs', j) = EnergyOf(energies, refs, j)

C12_ExclusiveOwnership == [][C12_OthersKept]_vars

\* two energies disagree: both are defined and they differ
Disagree(x, y) == x # None /\ y # None /\ AnyNeq(x, y)

\* C13: Energy.check_same_energy and the Probe constructor given a CTF raise
\* if and only if both sides define an energy and the two energies differ;
\* when exactly one side defines an energy, the probe and its CTF both end
\* up with that energy.
C13_Checks ==
    /\ last'.op = "check_same_energy" =>
           (last'.raised <=> Disagree(energies[last'.id], energies[last'.name]))
    /\ (last'.op = "probe" /\ last'.name = "ctf") =>
           LET given == EnergyOf(energies, refs, "ctf")
               one == IF given # None THEN given ELSE last'.value
           IN  /\ last'.raised <=> Disagree(given, last'.value)
               /\ ~last'.raised =>
                      /\ EnergyOf(energies', refs', last'.id) = one
                      /\ EnergyOf(energies', refs', "ctf") = one

C13_RealDisagreement == [][C13_Checks]_vars

\* C14: reading wavelength or sigma of an Energy raises if and only if its
\* energy is None, and a read that raised leaves the energy as it was and
\* sends no notification.
C14_Read ==
    last'.op = "read" =>
        /\ last'.raised <=> (energies[last'.id] = None)
        /\ ~last'.raised => last'.ret = Derived(last'.name, energies[last'.id])
        /\ last'.raised => (energies' = energies /\ last'.msgs = <<>>)

C14_UnsetEnergyRaises == [][C14_Read]_vars

\* a read of an Energy without energy, observed, has raised
C14_Witness ==
    /\ last.op = "read" /\ last.raised
    /\ observers[last.id] # <<>>
    /\ energies[last.id] = None
    /\ \E k \in DOMAIN energies : energies[k] = Q(0, 1)

\* the metadata of a Waves
Metadata(w) == <<w.extent, w.gpts, w.energy, w.tilt, w.aperture>>

\* C15: the Waves returned by Waves.multislice, for one and for several
\* frozen-phonon realizations, has the extent, gpts, energy, beam tilt and
\* antialiasing cutoff of the input wave.
C15_MetadataPreserved ==
    (last.op = "multislice" /\ ~last.raised) =>
        Metadata(waves["exit"]) = Metadata(waves[last.id])

\* the runs of the engine among the steps of a call: each starts with the
\* transmit step of its first slice
Runs(taken) == SelectSeq(taken, LAMBDA s : s.kind = "transmit" /\ s.slice = 1)

\* C16: with N > 1 frozen-phonon realizations Waves.multislice runs the engine
\* N times, once per realization in the order frozen_phonon_potentials()
\* yields them, each run from the content of the input wave, and returns one
\* Waves with a new leading axis of length N, entry i the exit wave of
\* realization i, tagged as an ensemble axis before the input's extra axes
\* metadata; with N = 1 the engine runs once and no axis is added.
C16_Ensemble ==
    (last.op = "multislice" /\ ~last.raised) =>
        LET self == waves[last.id]
            exit == waves["exit"]
            n == last.value.num_frozen_phonons
            ps == frozen_phonon_potentials(last.value)
            runs == Runs(steps)
        IN  /\ Len(runs) = n
            /\ \A i \in 1..n : runs[i].from = self.array.data
            /\ n > 1 =>
                   /\ \A i \in 1..n :
                          /\ runs[i].through = ps[i]
                          /\ exit.array.data.parts[i] = Exit(self.array.data, ps[i])
                   /\ exit.array.shape = <<n>> \o self.array.shape
                   /\ exit.axes = <<"frozen_phonons:ensemble">> \o self.axes
            /\ n = 1 =>
                   /\ runs[1].through = last.value
                   /\ exit.array = ArrayOf(self.array.shape,
                                           Exit(self.array.data, last.value))
                   /\ exit.axes = self.axes

\* a batch of waves has gone through a potential of several realizations
C16_Witness ==
    /\ last.op = "multislice" /\ ~last.raised
    /\ last.value.num_frozen_phonons = MaxPhonons
    /\ waves[last.id].axes # <<>>
    /\ Len(Runs(steps)) = MaxPhonons
    /\ Len(waves["exit"].array.shape) = 4

\* the steps of the slices among the steps of a call
SliceSteps(taken) ==
    {i \in 1..Len(taken) : taken[i].kind \in {"transmit", "propagate"}}

Validations(taken) == {i \in 1..Len(taken) : taken[i].kind = "validate"}

\* wave and potential disagree on extent, gpts or energy
Inconsistent(self, potential) ==
    \/ Disagree(self.extent, potential.extent)
    \/ self.gpts # NoGpts /\ potential.gpts # NoGpts /\ self.gpts # potential.gpts
    \/ Disagree(self.energy, potential.energy)

\* C17: in Waves.multislice and PlaneWave.multislice the consistency of wave
\* and potential is checked once, before the first transmit or propagate step
\* of any slice or realization; a call on an inconsistent pair raises, has
\* executed no slice step and returns no exit wave.
C17_Call ==
    last'.op \in {"multislice", "planewave_multislice"} =>
        /\ Inconsistent(waves[last'.id], last'.value) => last'.raised
        /\ last'.raised => (SliceSteps(steps') = {} /\ "exit" \notin DOMAIN waves')
        /\ ~last'.raised => "exit" \in DOMAIN waves'
        /\ Cardinality(Validations(steps')) <= 1
        /\ SliceSteps(steps') # {} =>
               /\ Cardinality(Validations(steps')) = 1
               /\ \A v \in Validations(steps') : \A i \in SliceSteps(steps') : v < i

C17_PreconditionsFirst == [][C17_Call]_vars

\* a plane wave whose grid matched the potential's has been built and then
\* refused, before any slice step, for its energy
C17_Witness ==
    /\ last.op = "planewave_multislice" /\ last.raised
    /\ Len(steps) = 3 /\ steps[3].kind = "validate"
    /\ Disagree(waves[last.id].energy, last.value.energy)
    /\ last.value.num_frozen_phonons = MaxPhonons

\* C18: Waves.from_zarr(url) called after w.to_zarr(url) succeeds and returns
\* a Waves whose array contents, energy and extent are those of w; the array
\* component written by to_zarr is in the store when to_zarr returns.
C18_Step ==
    /\ (last'.op = "to_zarr" /\ ~last'.raised) =>
           /\ "array" \in DOMAIN store'[last'.name].components
           /\ store'[last'.name].components["array"] = waves[last'.id].array
    /\ (last'.op = "from_zarr" /\ last.op = "to_zarr" /\ ~last.raised
        /\ last'.name = last.name) =>
           /\ ~last'.raised
           /\ "read" \in DOMAIN waves'
           /\ waves'["read"].array = waves[last.id].array
           /\ waves'["read"].energy = waves[last.id].energy
           /\ waves'["read"].extent = waves[last.id].extent

C18_RoundTrip == [][C18_Step]_vars

\* the gpts of a grid, as the shape of the spatial axes of an array
GptsShape(grid, dims) == [i \in 1..dims |-> get_gpts(grid).n]

\* C19: for every LineProfile or Image reached by construction, setter calls,
\* copy and indexing, gpts equals the trailing spatial_dimensions entries of
\* the shape of the array the object holds.
C19_GptsIsShape ==
    \A id \in DOMAIN waves :
        /\ get_gpts(grids[id]) # None
        /\ GptsShape(grids[id], waves[id].dims)
               = Trailing(waves[id].array.shape, waves[id].dims)

\* the sum of the intensity of the pixels of `ks`
RECURSIVE SumOver(_, _)
SumOver(v, ks) ==
    IF ks = {} THEN 0
    ELSE LET k == CHOOSE x \in ks : TRUE IN v[k] + SumOver(v, ks \ {k})

\* the pixels whose scattering angle lies in [inner, outer)
Annulus(v, detector) ==
    {k \in DOMAIN v : detector.inner <= k - 1 /\ k - 1 < detector.outer}

\* the fraction of the intensity of a wave that falls on the detector
Fraction(v, detector) == Q(SumOver(v, Annulus(v, detector)), SumOver(v, DOMAIN v))

\* C20: AnnularDetector.detect returns, per wave of the batch, the intensity
\* of the pixels whose scattering angle lies in [inner, outer) divided by the
\* total intensity of the wave: 1 when the annulus covers every pixel, less
\* than 1 when intensity lies outside it.
C20_Fraction ==
    last.op = "detect" =>
        LET batch == waves[last.id].intensity
        IN  /\ Len(last.ret) = Len(batch)
            /\ \A i \in 1..Len(batch) : last.ret[i] = Fraction(batch[i], last.value)

---------------------------------------------------------------------------
(* Claims C21 - C30 *)

\* the axes after those of the scan
DetectorAxes(shape) == SubSeq(shape, Len(ScanShape) + 1, Len(shape))

\* C21: for each detector type and every grid, the per-position shape of the
\* output of detect equals the detector-axes shape of the measurement that
\* allocate_measurement creates for the grid; for PixelatedDetector both are
\* (n0 // 2, n1 // 2), the crop window lying inside [0, n) on each axis.
C21_StorageFits ==
    last.op = "scan" =>
        LET gpts == waves[last.id].gpts
        IN  /\ ~steps[1].raised => (/\ ~steps[2].raised
                                    /\ DetectorAxes(steps[2].shape)
                                           = DetectorAxes(steps[1].shape))
            /\ last.value.type = "Pixelated" =>
                   /\ DetectorAxes(steps[2].shape) = <<gpts[1] \div 2, gpts[2] \div 2>>
                   /\ \A i \in 1..2 :
                          /\ 0 <= crop_window(gpts[i]).left
                          /\ crop_window(gpts[i]).right <= gpts[i]

LockedExtentAndSampling ==
    /\ last.op = "construct"
    /\ last.value.extent = "locked" /\ last.value.sampling = "locked"
    /\ last.value.gpts = "value"
    /\ last.args[1] # None /\ last.args[3] # None

\* C23: the gpts read of a Grid whose extent and sampling are both locked is
\* ceil(extent / sampling), plus one on an endpoint-inclusive grid: the Grid
\* exists, and the gpts its getter returns is that number of points
C23_LockedGpts ==
    LockedExtentAndSampling =>
        LET given == GridOf(last.args[1], last.args[2], last.args[3],
                            TRUE, FALSE, TRUE, last.value.endpoint)
            expected == adjusted_gpts(given, last.args[1], last.args[3])
        IN  /\ ~last.raised
            /\ last.ret \in expected
            /\ get_gpts(grids[last.id]) \in expected

\* how many of extent, gpts and sampling of a grid read as defined
DefinedCount(grid) ==
    Cardinality({name \in PropertyNames : Get(grid, name) # None})

\* C24: on a Grid without locks, after construction and after any setter call
\* (None included), whenever two of extent, gpts and sampling are defined the
\* third reads as defined too and extent = gpts * sampling holds
\* (endpoint: (gpts - 1) * sampling)
C24_TwoDetermineThird ==
    \A id \in DOMAIN grids :
        (~HasLock(grids[id]) /\ DefinedCount(grids[id]) >= 2)
            => (DefinedCount(grids[id]) = 3 /\ RelationHolds(grids[id]))

\* C25: a call of the extent, gpts or sampling setter that raises leaves
\* extent, gpts and sampling as they were before the call and notifies no
\* observer
C25_FailedSetterKeeps ==
    [][(last'.op = "set" /\ last'.raised)
       => /\ \A name \in PropertyNames :
                 Get(grids'[last'.id], name) = Get(grids[last'.id], name)
          /\ last'.msgs = <<>>]_vars

\* C26: a call a.match_grid(b) that raises leaves extent, gpts and sampling of
\* both grids as they were before the call and notifies no observer of either
C26_FailedMatchKeeps ==
    [][(last'.op = "match" /\ last'.raised)
       => /\ \A id \in {last'.id, last'.name} : \A name \in PropertyNames :
                 Get(grids'[id], name) = Get(grids[id], name)
          /\ last'.msgs = <<>>]_vars

\* C27: a setter called with the value its property already has removes no
\* entry of the observing Cache, whatever the clear condition of the entry,
\* and leaves every cached value and clear condition as it was
C27_NoChangeNoPurge ==
    [][(/\ SetReturned(last')
        /\ IsIn("cache", observers[last'.id])
        /\ Get(grids[last'.id], last'.name) = last'.value)
       => (cache' = cache /\ conds' = conds)]_vars

\* C27 witness: a setter was called with the value its property had while the
\* Cache held an entry of each clear condition; the message said no change and
\* the three entries are there
C27_Witness ==
    /\ SetReturned(last)
    /\ Get(grids[last.id], last.name) = last.value
    /\ Len(last.msgs) = 1 /\ last.msgs[1].to = "cache" /\ ~last.msgs[1].change
    /\ DOMAIN conds = Methods /\ DOMAIN cache = Methods

\* C28: a call _get_regions(gpts, sampling, wavelength) that _get_bins admits
\* returns the regions computed for the gpts, sampling and wavelength of this
\* call and for the inner and outer the detector has now
C28_RegionsOfInputs ==
    (/\ last.op = "get_regions"
     /\ ~get_bins_raises(waves[last.id], last.args[2], last.args[3]))
        => /\ ~last.raised
           /\ last.ret = polar_regions(waves[last.id], last.args[1],
                                       last.args[2], last.args[3])

\* C29: g.copy() returns, for every Grid g, a grid with the extent, gpts,
\* sampling and endpoint flag of g, and a setter call on one of the two grids
\* never changes the other
C29_CopyEqualIndependent ==
    [][/\ last'.op = "copy"
          => /\ ~last'.raised
             /\ \A name \in PropertyNames :
                    Get(grids'[last'.name], name) = Get(grids[last'.id], name)
             /\ grids'[last'.name].endpoint = grids[last'.id].endpoint
       /\ last'.op = "set"
          => \A id \in DOMAIN grids \ {last'.id} : grids'[id] = grids[id]]_vars

\* C30: every Waves reached from a well-formed Waves by copy, __getitem__,
\* downsample, apply_ctf, multislice and from_zarr has as many axes metadata
\* (the extra ones and the two base axes) as its array has axes
C30_AxesMatchRank ==
    \A k \in DOMAIN waves :
        Len(axes_metadata(waves[k])) = Len(waves[k].array.shape)

=============================================================================
